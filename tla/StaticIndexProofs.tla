-------------------------- MODULE StaticIndexProofs --------------------------
(***************************************************************************)
(* Theorems about StrongComponents.tla, Grail.tla and StaticIndex.tla.     *)
(* First the strong components: the steps of the search keep two           *)
(* invariants, on any graph.  From the one, about the order in which nodes *)
(* are met, the components are numbered against the edges; from the other, *)
(* about which nodes lead to which, they are the strongly connected ones.  *)
(* Then the walks of the GRAIL index on any acyclic hypergraph: intervals  *)
(* nest at every moment, a component that has its interval is never told   *)
(* NO of one that it leads to, and every component gets a rank of its own. *)
(* Last the whole index on any graph: it answers as the graph does.        *)
(***************************************************************************)
EXTENDS StaticIndex, PathsProofs, SequenceTheorems

In(s, u)     == \E k \in DOMAIN s : s[k] = u
Sorted(s, f) == \A j, k \in DOMAIN s : j < k => f[s[k]] < f[s[j]]

-----------------------------------------------------------------------------
(* The inductive invariant *)

\* The variables keep to their types.
SCCTyped ==
  /\ edges \subseteq Pairs
  /\ index \in Nat \ {0}
  /\ idx \in [Nodes -> Nat] /\ lowLink \in [Nodes -> Nat]
  /\ currentNeightbor \in [Nodes -> Nodes \cup {ALL_NEIGHBORS_EXPANDED}]
  /\ rest \in [Nodes -> SUBSET Nodes]
  /\ stack \in Seq(Nodes) /\ path \in Seq(Nodes)
  /\ componentId \in Nat \ {0}
  /\ component_id \in [Nodes -> Nat]

\* Nodes are numbered as they are met, and both stacks are in this order.
Numbered ==
  /\ \A u \in Nodes : idx[u] < index
  /\ \A u, v \in Nodes : idx[u] = idx[v] /\ Defined(u) => u = v
  /\ Sorted(stack, idx) /\ Sorted(path, idx)
  /\ \A u \in Nodes : In(path, u) => In(stack, u)

\* A node that has been met is on the stack or has a component that was closed.
Settled ==
  \A u \in Nodes :
    /\ component_id[u] # 0 => Defined(u) /\ ~In(stack, u) /\ component_id[u] < componentId
    /\ Defined(u) <=> In(stack, u) \/ component_id[u] # 0

\* A node has no neighbours to come once it has left the path.
Expanded ==
  \A u \in Nodes :
    /\ Defined(u) /\ ~In(path, u) => currentNeightbor[u] = ALL_NEIGHBORS_EXPANDED
    /\ currentNeightbor[u] = ALL_NEIGHBORS_EXPANDED => rest[u] = {}

\* p is the last node of the path that was met no later than w.
Covers(p, w) ==
  /\ In(path, p) /\ idx[p] <= idx[w]
  /\ \A q \in Nodes : In(path, q) /\ idx[q] <= idx[w] => idx[q] <= idx[p]

\* A neighbour that has been looked at is met; while it is on the stack its
\* number bounds the lowLink of the node of the path that answers for the edge.
Looked ==
  \A e \in edges :
    Defined(e[1]) /\ e[2] \notin rest[e[1]] /\ e[2] # currentNeightbor[e[1]] =>
      /\ Defined(e[2])
      /\ In(stack, e[2]) => \A p \in Nodes : Covers(p, e[1]) => lowLink[p] <= idx[e[2]]

SCCInv == SCCTyped /\ Numbered /\ Settled /\ Expanded /\ Looked /\ IdsFollowEdges

-----------------------------------------------------------------------------
(* The stacks as sets of nodes in an order *)

LEMMA InPushed ==
  ASSUME NEW s \in Seq(Nodes), NEW x \in Nodes
  PROVE  \A u \in Nodes : In(<<x>> \o s, u) <=> u = x \/ In(s, u)
<1> DEFINE t == <<x>> \o s
<1>1. /\ t \in Seq(Nodes) /\ Len(s) \in Nat /\ Len(t) = Len(s) + 1 /\ t[1] = x
      /\ \A k \in 1 .. Len(s) : t[k + 1] = s[k] /\ s[k] \in Nodes
  OBVIOUS
<1>2. DOMAIN t = 1 .. Len(s) + 1 /\ DOMAIN s = 1 .. Len(s)
  BY <1>1
<1> HIDE DEF t
<1>3. \A k \in DOMAIN t : k = 1 \/ (k - 1 \in DOMAIN s /\ t[k] = s[k - 1])
  <2> TAKE k \in DOMAIN t
  <2>1. CASE k # 1
    <3>1. k - 1 \in 1 .. Len(s) /\ (k - 1) + 1 = k
      BY <1>1, <1>2, <2>1
    <3> QED BY <1>1, <1>2, <3>1
  <2> QED BY <2>1
<1>4. \A u \in Nodes : In(t, u) <=> u = x \/ In(s, u)
  <2> TAKE u \in Nodes
  <2>1. In(t, u) => u = x \/ In(s, u)
    BY <1>1, <1>3 DEF In
  <2>2. In(t, x)
    <3>1. 1 \in DOMAIN t /\ t[1] = x
      BY <1>1, <1>2
    <3> QED BY <3>1 DEF In
  <2>3. ASSUME In(s, u) PROVE In(t, u)
    <3>1. PICK k \in 1 .. Len(s) : s[k] = u
      BY <1>2, <2>3 DEF In
    <3>2. k + 1 \in DOMAIN t /\ t[k + 1] = u
      BY <1>1, <1>2, <3>1
    <3> QED BY <3>2 DEF In
  <2> QED BY <2>1, <2>2, <2>3
<1> QED BY <1>4 DEF t

LEMMA Pushed ==
  ASSUME NEW s \in Seq(Nodes), NEW x \in Nodes, NEW f \in [Nodes -> Nat],
         Sorted(s, f), \A u \in Nodes : In(s, u) => f[u] < f[x]
  PROVE  /\ <<x>> \o s \in Seq(Nodes) /\ Sorted(<<x>> \o s, f)
         /\ \A u \in Nodes : In(<<x>> \o s, u) <=> u = x \/ In(s, u)
<1> DEFINE t == <<x>> \o s
<1>1. /\ t \in Seq(Nodes) /\ Len(s) \in Nat /\ Len(t) = Len(s) + 1 /\ t[1] = x
      /\ \A k \in 1 .. Len(s) : t[k + 1] = s[k] /\ s[k] \in Nodes
  OBVIOUS
<1>2. DOMAIN t = 1 .. Len(s) + 1 /\ DOMAIN s = 1 .. Len(s)
  BY <1>1
<1> HIDE DEF t
<1>3. \A k \in DOMAIN t : k = 1 \/ (k - 1 \in DOMAIN s /\ t[k] = s[k - 1])
  <2> TAKE k \in DOMAIN t
  <2>1. CASE k # 1
    <3>1. k - 1 \in 1 .. Len(s) /\ (k - 1) + 1 = k
      BY <1>1, <1>2, <2>1
    <3> QED BY <1>1, <1>2, <3>1
  <2> QED BY <2>1
<1>4. \A u \in Nodes : In(t, u) <=> u = x \/ In(s, u)
  BY InPushed DEF t
<1>5. Sorted(t, f)
  <2> SUFFICES ASSUME NEW j \in DOMAIN t, NEW k \in DOMAIN t, j < k
               PROVE  f[t[k]] < f[t[j]]
    BY DEF Sorted
  <2>1. k - 1 \in DOMAIN s /\ t[k] = s[k - 1] /\ k \in Int /\ j \in Int /\ 1 <= j
    BY <1>1, <1>2, <1>3
  <2>2. CASE j = 1
    <3>1. In(s, t[k]) /\ t[k] \in Nodes
      BY <1>1, <1>2, <2>1 DEF In
    <3> QED BY <3>1, <2>2, <1>1
  <2>3. CASE j # 1
    <3>1. j - 1 \in DOMAIN s /\ t[j] = s[j - 1] /\ j - 1 < k - 1
      BY <1>3, <2>1, <2>3
    <3> QED BY <2>1, <3>1 DEF Sorted
  <2> QED BY <2>2, <2>3
<1> QED BY <1>1, <1>4, <1>5 DEF t

LEMMA CutOff ==
  ASSUME NEW s \in Seq(Nodes), NEW f \in [Nodes -> Nat], Sorted(s, f), NEW k \in DOMAIN s,
         NEW t, t = SubSeq(s, k + 1, Len(s))
  PROVE  /\ t \in Seq(Nodes) /\ Sorted(t, f) /\ s[k] \in Nodes
         /\ \A u \in Nodes : In(t, u) <=> In(s, u) /\ f[u] < f[s[k]]
         /\ \A u \in Nodes : (\E j \in 1 .. k : s[j] = u) <=> In(s, u) /\ f[s[k]] <= f[u]
<1>1. /\ Len(s) \in Nat /\ DOMAIN s = 1 .. Len(s) /\ k \in 1 .. Len(s)
      /\ \A j \in 1 .. Len(s) : s[j] \in Nodes /\ f[s[j]] \in Nat
  OBVIOUS
<1>2. /\ t \in Seq(Nodes) /\ Len(t) = Len(s) - k
      /\ \A j \in 1 .. Len(s) - k : t[j] = s[j + k]
  <2>1. /\ t \in Seq(Nodes) /\ Len(t) = IF k + 1 <= Len(s) THEN Len(s) - (k + 1) + 1 ELSE 0
        /\ \A j \in 1 .. Len(s) - (k + 1) + 1 : t[j] = s[(k + 1) + j - 1]
    <3>1. k + 1 \in Int /\ Len(s) \in Int /\ \A j \in k + 1 .. Len(s) : j \in 1 .. Len(s)
      BY <1>1
    <3>2. \A j \in k + 1 .. Len(s) : s[j] \in Nodes
      BY <1>1, <3>1
    <3> DEFINE m == k + 1
               n == Len(s)
    <3>3. m \in Int /\ n \in Int /\ (\A j \in m .. n : s[j] \in Nodes) /\ t = SubSeq(s, m, n)
      BY <3>1, <3>2
    <3> HIDE DEF m, n
    <3>4. /\ t \in Seq(Nodes) /\ Len(t) = IF m <= n THEN n - m + 1 ELSE 0
          /\ \A j \in 1 .. n - m + 1 : t[j] = s[m + j - 1]
      BY ONLY <3>3, SubSeqProperties
    <3> QED BY <3>4 DEF m, n
  <2>2. Len(s) - (k + 1) + 1 = Len(s) - k
    BY <1>1
  <2>3. \A j \in 1 .. Len(s) - k : (k + 1) + j - 1 = j + k
    BY <1>1
  <2>4. Len(t) = Len(s) - k
    BY <1>1, <2>1
  <2>5. \A j \in 1 .. Len(s) - k : t[j] = s[j + k]
    BY <2>1, <2>2, <2>3
  <2> QED BY <2>1, <2>4, <2>5
<1>3. DOMAIN t = 1 .. Len(s) - k
  BY <1>1, <1>2
<1>4. \A j \in DOMAIN t : j + k \in DOMAIN s /\ k < j + k /\ t[j] = s[j + k]
  <2> SUFFICES ASSUME NEW j \in 1 .. Len(s) - k
               PROVE  j + k \in DOMAIN s /\ k < j + k /\ t[j] = s[j + k]
    BY <1>3
  <2>1. j + k \in 1 .. Len(s) /\ k < j + k
    BY <1>1
  <2> QED BY <1>1, <1>2, <2>1
<1>5. \A j \in DOMAIN s : k < j => j - k \in DOMAIN t /\ t[j - k] = s[j]
  <2> SUFFICES ASSUME NEW j \in DOMAIN s, k < j PROVE j - k \in DOMAIN t /\ t[j - k] = s[j]
    OBVIOUS
  <2>1. j - k \in 1 .. Len(s) - k /\ (j - k) + k = j
    BY <1>1
  <2> QED BY <1>2, <1>3, <2>1
<1>6. Sorted(t, f)
  <2> SUFFICES ASSUME NEW i \in DOMAIN t, NEW j \in DOMAIN t, i < j PROVE f[t[j]] < f[t[i]]
    BY DEF Sorted
  <2>1. i + k < j + k
    BY <1>1, <1>3
  <2> QED BY <1>4, <2>1 DEF Sorted
<1>7. \A j \in DOMAIN s : /\ k < j <=> f[s[j]] < f[s[k]]
                          /\ j \in 1 .. k <=> f[s[k]] <= f[s[j]]
  <2> SUFFICES ASSUME NEW j \in DOMAIN s
               PROVE  /\ k < j <=> f[s[j]] < f[s[k]]
                      /\ j \in 1 .. k <=> f[s[k]] <= f[s[j]]
    OBVIOUS
  <2>1. f[s[j]] \in Nat /\ f[s[k]] \in Nat /\ j \in 1 .. Len(s)
    BY <1>1
  <2>2. CASE k < j
    <3>1. f[s[j]] < f[s[k]]
      BY <2>2 DEF Sorted
    <3> QED BY <1>1, <2>1, <2>2, <3>1
  <2>3. CASE j < k
    <3>1. f[s[k]] < f[s[j]]
      BY <2>3 DEF Sorted
    <3> QED BY <1>1, <2>1, <2>3, <3>1
  <2>4. CASE j = k
    BY <1>1, <2>1, <2>4
  <2> QED BY <1>1, <2>1, <2>2, <2>3, <2>4
<1>8. \A u \in Nodes : In(t, u) <=> In(s, u) /\ f[u] < f[s[k]]
  <2> TAKE u \in Nodes
  <2>1. ASSUME In(t, u) PROVE In(s, u) /\ f[u] < f[s[k]]
    <3>1. PICK j \in DOMAIN t : t[j] = u
      BY <2>1 DEF In
    <3> QED BY <1>4, <1>7, <3>1 DEF In
  <2>2. ASSUME In(s, u), f[u] < f[s[k]] PROVE In(t, u)
    <3>1. PICK j \in DOMAIN s : s[j] = u
      BY <2>2 DEF In
    <3> QED BY <1>5, <1>7, <2>2, <3>1 DEF In
  <2> QED BY <2>1, <2>2
<1>9. \A u \in Nodes : (\E j \in 1 .. k : s[j] = u) <=> In(s, u) /\ f[s[k]] <= f[u]
  <2>1. \A j \in 1 .. k : j \in DOMAIN s
    BY <1>1
  <2> QED BY <1>7, <2>1 DEF In
<1> QED BY <1>1, <1>2, <1>6, <1>8, <1>9

LEMMA Popped ==
  ASSUME NEW s \in Seq(Nodes), NEW f \in [Nodes -> Nat], Sorted(s, f), s # <<>>
  PROVE  /\ Tail(s) \in Seq(Nodes) /\ Sorted(Tail(s), f)
         /\ Head(s) \in Nodes /\ In(s, Head(s))
         /\ \A u \in Nodes : In(s, u) => u = Head(s) \/ f[u] < f[Head(s)]
         /\ \A u \in Nodes : In(s, u) => f[u] <= f[Head(s)]
         /\ \A u \in Nodes : In(Tail(s), u) <=> In(s, u) /\ u # Head(s)
         /\ Tail(s) = <<>> => \A u \in Nodes : ~In(Tail(s), u)
<1>1. /\ Len(s) \in Nat \ {0} /\ DOMAIN s = 1 .. Len(s) /\ 1 \in DOMAIN s
      /\ Head(s) = s[1] /\ s[1] \in Nodes
  OBVIOUS
<1>2. Tail(s) = SubSeq(s, 1 + 1, Len(s))
  BY <1>1
<1>3. /\ Tail(s) \in Seq(Nodes) /\ Sorted(Tail(s), f)
      /\ \A u \in Nodes : In(Tail(s), u) <=> In(s, u) /\ f[u] < f[s[1]]
  BY <1>1, <1>2, CutOff
<1>4. \A u \in Nodes : In(s, u) => u = s[1] \/ f[u] < f[s[1]]
  <2> SUFFICES ASSUME NEW j \in DOMAIN s, j # 1 PROVE f[s[j]] < f[s[1]]
    BY DEF In
  <2>1. 1 < j
    BY <1>1
  <2> QED BY <1>1, <2>1 DEF Sorted
<1>5. In(s, s[1]) /\ f[s[1]] \in Nat
  BY <1>1 DEF In
<1>6. Tail(s) = <<>> => \A u \in Nodes : ~In(Tail(s), u)
  BY DEF In
<1>7. \A u \in Nodes : In(s, u) => f[u] <= f[s[1]]
  <2> SUFFICES ASSUME NEW u \in Nodes, In(s, u) PROVE f[u] <= f[s[1]]
    OBVIOUS
  <2>1. f[u] \in Nat /\ (u = s[1] \/ f[u] < f[s[1]])
    BY <1>4
  <2> QED BY ONLY <1>5, <2>1
<1> QED BY <1>1, <1>3, <1>4, <1>5, <1>6, <1>7

-----------------------------------------------------------------------------
(* The invariant holds at first and is kept *)

\* The mark of a node without neighbours to come is no node.
LEMMA AllExpanded == ALL_NEIGHBORS_EXPANDED \notin Nodes
  BY NodesAssumption DEF ALL_NEIGHBORS_EXPANDED

LEMMA SCCInvInit == SCCInit => SCCInv
<1> SUFFICES ASSUME SCCInit PROVE SCCInv
  OBVIOUS
<1>1. /\ idx = [u \in Nodes |-> 0] /\ component_id = [u \in Nodes |-> 0]
      /\ lowLink = [u \in Nodes |-> 0]
      /\ stack = <<>> /\ path = <<>> /\ index = 1 /\ componentId = 1 /\ edges \subseteq Pairs
      /\ currentNeightbor = [u \in Nodes |-> ALL_NEIGHBORS_EXPANDED]
      /\ rest = [u \in Nodes |-> {}]
  BY DEF SCCInit
<1>2. \A u : ~In(stack, u) /\ ~In(path, u)
  BY <1>1 DEF In
<1>3. Sorted(stack, idx) /\ Sorted(path, idx)
  BY <1>1 DEF Sorted
<1>4. SCCTyped
  BY <1>1 DEF SCCTyped
<1>5. Numbered
  BY <1>1, <1>2, <1>3 DEF Numbered, Defined
<1>6. Settled /\ Expanded
  BY <1>1, <1>2 DEF Settled, Expanded, Defined
<1>7. \A e \in edges : e[1] \in Nodes
  BY <1>1, PairsAssumption
<1>8. Looked /\ IdsFollowEdges
  BY <1>1, <1>7 DEF Looked, Defined, IdsFollowEdges
<1> QED BY <1>4, <1>5, <1>6, <1>8 DEF SCCInv

\* An edge joins two nodes.
LEMMA EdgeEnds ==
  ASSUME SCCTyped, NEW e \in edges
  PROVE  e[1] \in Nodes /\ e[2] \in Nodes /\ e = <<e[1], e[2]>>
  BY PairsAssumption DEF SCCTyped

\* What Advance leaves of the neighbours to come.
LEMMA Advanced ==
  ASSUME SCCTyped, NEW u \in Nodes, NEW N \in SUBSET Nodes, Advance(u, N)
  PROVE  /\ currentNeightbor' \in [Nodes -> Nodes \cup {ALL_NEIGHBORS_EXPANDED}]
         /\ rest' \in [Nodes -> SUBSET Nodes]
         /\ \A w \in Nodes \ {u} : /\ currentNeightbor'[w] = currentNeightbor[w]
                                   /\ rest'[w] = rest[w]
         /\ currentNeightbor'[u] = ALL_NEIGHBORS_EXPANDED => rest'[u] = {}
         /\ \A w \in N : w \in rest'[u] \/ w = currentNeightbor'[u]
<1>1. PICK v \in NextOf(N) : /\ currentNeightbor' = [currentNeightbor EXCEPT ![u] = v]
                             /\ rest' = [rest EXCEPT ![u] = N \ {v}]
  BY DEF Advance
<1>2. IF N = {} THEN v = ALL_NEIGHBORS_EXPANDED ELSE v \in N
  BY DEF NextOf
<1>3. v \in Nodes \cup {ALL_NEIGHBORS_EXPANDED}
  BY <1>2
<1>4. /\ currentNeightbor' \in [Nodes -> Nodes \cup {ALL_NEIGHBORS_EXPANDED}]
      /\ rest' \in [Nodes -> SUBSET Nodes]
  BY <1>1, <1>3 DEF SCCTyped
<1>5. currentNeightbor'[u] = v /\ rest'[u] = N \ {v}
  BY <1>1 DEF SCCTyped
<1>6. v = ALL_NEIGHBORS_EXPANDED => N = {}
  BY <1>2, AllExpanded
<1>7. \A w \in Nodes \ {u} : currentNeightbor'[w] = currentNeightbor[w] /\ rest'[w] = rest[w]
  BY <1>1 DEF SCCTyped
<1> QED BY <1>4, <1>5, <1>6, <1>7

\* A node that is met goes on top of both stacks.
LEMMA SCCInvEnter ==
  ASSUME SCCInv, NEW u \in Nodes, ~Defined(u), Enter(u)
  PROVE  SCCInv'
<1>0. SCCTyped /\ Numbered /\ Settled /\ Expanded /\ Looked /\ IdsFollowEdges
  BY DEF SCCInv
<1>1. /\ idx' = [idx EXCEPT ![u] = index] /\ lowLink' = [lowLink EXCEPT ![u] = index]
      /\ index' = index + 1 /\ Advance(u, Outgoing(u))
      /\ stack' = <<u>> \o stack /\ path' = <<u>> \o path
      /\ UNCHANGED <<edges, componentId, component_id>>
  BY DEF Enter
<1>2. /\ index \in Nat \ {0} /\ idx \in [Nodes -> Nat] /\ idx' \in [Nodes -> Nat]
      /\ idx'[u] = index /\ \A w \in Nodes \ {u} : idx'[w] = idx[w]
      /\ lowLink' \in [Nodes -> Nat] /\ \A w \in Nodes \ {u} : lowLink'[w] = lowLink[w]
      /\ stack \in Seq(Nodes) /\ path \in Seq(Nodes)
  BY <1>0, <1>1 DEF SCCTyped
<1>3. \A w \in Nodes : /\ In(stack, w) => w # u /\ idx'[w] < idx'[u] /\ Defined(w)
                       /\ In(path, w) => w # u /\ idx'[w] < idx'[u]
  <2>1. \A w \in Nodes : In(path, w) => In(stack, w)
    BY <1>0 DEF Numbered
  <2>2. \A w \in Nodes : In(stack, w) => Defined(w)
    BY <1>0 DEF Settled
  <2>3. \A w \in Nodes : Defined(w) => w # u /\ idx'[w] < idx'[u]
    BY <1>0, <1>2 DEF Numbered
  <2> QED BY <2>1, <2>2, <2>3
<1>4. Sorted(stack, idx') /\ Sorted(path, idx')
  <2>1. /\ \A k \in DOMAIN stack : stack[k] \in Nodes /\ In(stack, stack[k])
        /\ \A k \in DOMAIN path : path[k] \in Nodes /\ In(path, path[k])
    BY <1>2, ElementOfSeq, LenProperties DEF In
  <2>2. /\ \A k \in DOMAIN stack : idx'[stack[k]] = idx[stack[k]]
        /\ \A k \in DOMAIN path : idx'[path[k]] = idx[path[k]]
    BY <1>2, <1>3, <2>1
  <2> QED BY <1>0, <2>2 DEF Numbered, Sorted
<1>5. /\ stack' \in Seq(Nodes) /\ Sorted(stack, idx)' 
      /\ \A w \in Nodes : In(stack', w) <=> w = u \/ In(stack, w)
  BY <1>1, <1>2, <1>3, <1>4, Pushed
<1>6. /\ path' \in Seq(Nodes) /\ Sorted(path, idx)'
      /\ \A w \in Nodes : In(path', w) <=> w = u \/ In(path, w)
  BY <1>1, <1>2, <1>3, <1>4, Pushed
<1>7. Outgoing(u) \subseteq Nodes
  BY <1>0, EdgeEnds DEF Outgoing
<1>8. /\ currentNeightbor' \in [Nodes -> Nodes \cup {ALL_NEIGHBORS_EXPANDED}]
      /\ rest' \in [Nodes -> SUBSET Nodes]
      /\ \A w \in Nodes \ {u} : currentNeightbor'[w] = currentNeightbor[w] /\ rest'[w] = rest[w]
      /\ currentNeightbor'[u] = ALL_NEIGHBORS_EXPANDED => rest'[u] = {}
      /\ \A w \in Outgoing(u) : w \in rest'[u] \/ w = currentNeightbor'[u]
  BY <1>0, <1>1, <1>7, Advanced
<1>9. SCCTyped'
  <2>1. edges' \subseteq Pairs /\ componentId' \in Nat \ {0} /\ component_id' \in [Nodes -> Nat]
    BY <1>0, <1>1 DEF SCCTyped
  <2>2. index' \in Nat \ {0}
    BY <1>1, <1>2
  <2> QED BY <1>2, <1>5, <1>6, <1>8, <2>1, <2>2 DEF SCCTyped
<1>10. Numbered'
  <2>1. \A w \in Nodes : idx'[w] < index'
    BY <1>0, <1>1, <1>2 DEF Numbered
  <2>2. \A v, w \in Nodes : idx'[v] = idx'[w] /\ idx'[v] # 0 => v = w
    <3> SUFFICES ASSUME NEW v \in Nodes, NEW w \in Nodes, idx'[v] = idx'[w], idx'[v] # 0
                 PROVE  v = w
      OBVIOUS
    <3>1. idx[v] < index /\ idx[w] < index
      BY <1>0 DEF Numbered
    <3>2. CASE v = u \/ w = u
      BY <1>2, <3>1, <3>2
    <3>3. CASE v # u /\ w # u
      BY <1>0, <1>2, <3>3 DEF Numbered, Defined
    <3> QED BY <3>2, <3>3
  <2>3. \A w \in Nodes : In(path', w) => In(stack', w)
    BY <1>0, <1>5, <1>6 DEF Numbered
  <2> QED BY <1>5, <1>6, <2>1, <2>2, <2>3 DEF Numbered, Defined
<1>11. Settled'
  <2>1. component_id[u] = 0
    BY <1>0 DEF Settled
  <2>2. idx'[u] # 0 /\ \A w \in Nodes \ {u} : idx'[w] = idx[w]
    BY <1>2
  <2> QED BY <1>0, <1>1, <1>5, <2>1, <2>2 DEF Settled, Defined
<1>12. Expanded'
  BY <1>0, <1>2, <1>6, <1>8 DEF Expanded, Defined
<1>13. Looked'
  <2> SUFFICES ASSUME NEW e \in edges, Defined(e[1])', e[2] \notin rest'[e[1]],
                      e[2] # currentNeightbor'[e[1]]
               PROVE  /\ Defined(e[2])'
                      /\ In(stack', e[2]) =>
                           \A p \in Nodes : Covers(p, e[1])' => lowLink'[p] <= idx'[e[2]]
    BY <1>1 DEF Looked
  <2>1. e[1] \in Nodes /\ e[2] \in Nodes
    BY <1>0, EdgeEnds
  <2>2. e[1] # u
    BY <1>8, <2>1 DEF Outgoing
  <2>3. /\ Defined(e[1]) /\ e[2] \notin rest[e[1]] /\ e[2] # currentNeightbor[e[1]]
        /\ idx'[e[1]] = idx[e[1]]
    BY <1>2, <1>8, <2>1, <2>2 DEF Defined
  <2>4. /\ Defined(e[2])
        /\ In(stack, e[2]) => \A p \in Nodes : Covers(p, e[1]) => lowLink[p] <= idx[e[2]]
    BY <1>0, <2>3 DEF Looked
  <2>5. e[2] # u /\ idx'[e[2]] = idx[e[2]]
    BY <1>2, <2>1, <2>4
  <2>6. Defined(e[2])'
    BY <2>4, <2>5 DEF Defined
  <2>7. ASSUME In(stack', e[2]), NEW p \in Nodes, Covers(p, e[1])'
        PROVE  lowLink'[p] <= idx'[e[2]]
    <3>1. In(path', p) /\ idx'[p] <= idx'[e[1]]
      BY <2>7 DEF Covers
    <3>2. p # u
      BY <1>0, <1>2, <2>1, <2>3, <3>1 DEF Numbered
    <3>3. In(path, p) /\ idx[p] <= idx[e[1]]
      BY <1>2, <1>6, <2>3, <3>1, <3>2
    <3>4. \A q \in Nodes : In(path, q) /\ idx[q] <= idx[e[1]] => idx[q] <= idx[p]
      BY <1>2, <1>3, <1>6, <2>3, <2>7, <3>2 DEF Covers
    <3>5. Covers(p, e[1])
      BY <3>3, <3>4 DEF Covers
    <3>6. In(stack, e[2])
      BY <1>5, <2>1, <2>5, <2>7
    <3> QED BY <1>2, <2>4, <2>5, <3>2, <3>5, <3>6
  <2> QED BY <2>6, <2>7
<1>14. IdsFollowEdges'
  BY <1>0, <1>1 DEF IdsFollowEdges
<1> QED BY <1>9, <1>10, <1>11, <1>12, <1>13, <1>14 DEF SCCInv

\* Looking at a neighbour that has been met bounds the lowLink of the top node.
LEMMA SCCInvLookAt ==
  ASSUME SCCInv, LookAt
  PROVE  SCCInv'
<1>0. SCCTyped /\ Numbered /\ Settled /\ Expanded /\ Looked /\ IdsFollowEdges
  BY DEF SCCInv
<1> DEFINE u == Head(path)
           v == currentNeightbor[u]
<1>1. /\ v # ALL_NEIGHBORS_EXPANDED /\ Defined(v)
      /\ lowLink' = [lowLink EXCEPT ![u] = IF onStack(v) THEN minimum(@, idx[v]) ELSE @]
      /\ Advance(u, rest[u])
      /\ UNCHANGED <<edges, index, idx, stack, path, componentId, component_id>>
      /\ path # <<>>
  BY DEF LookAt
<1>2. /\ idx \in [Nodes -> Nat] /\ lowLink \in [Nodes -> Nat] /\ path \in Seq(Nodes)
      /\ Sorted(path, idx)
  BY <1>0 DEF SCCTyped, Numbered
<1>3. /\ u \in Nodes /\ In(path, u)
      /\ \A w \in Nodes : In(path, w) => w = u \/ idx[w] < idx[u]
  BY <1>1, <1>2, Popped
<1> HIDE DEF u
<1>4. v \in Nodes /\ rest[u] \subseteq Nodes
  BY <1>0, <1>1, <1>3 DEF SCCTyped
<1> HIDE DEF v
<1>5. /\ currentNeightbor' \in [Nodes -> Nodes \cup {ALL_NEIGHBORS_EXPANDED}]
      /\ rest' \in [Nodes -> SUBSET Nodes]
      /\ \A w \in Nodes \ {u} : currentNeightbor'[w] = currentNeightbor[w] /\ rest'[w] = rest[w]
      /\ currentNeightbor'[u] = ALL_NEIGHBORS_EXPANDED => rest'[u] = {}
      /\ \A w \in rest[u] : w \in rest'[u] \/ w = currentNeightbor'[u]
  BY <1>0, <1>1, <1>3, <1>4, Advanced
<1>6. /\ lowLink' \in [Nodes -> Nat] /\ \A w \in Nodes : lowLink'[w] <= lowLink[w]
      /\ In(stack, v) => lowLink'[u] <= idx[v]
  <2>1. lowLink[u] \in Nat /\ idx[v] \in Nat
    BY <1>2, <1>3, <1>4
  <2> DEFINE low == IF onStack(v) THEN minimum(lowLink[u], idx[v]) ELSE lowLink[u]
  <2>2. low \in Nat /\ low <= lowLink[u] /\ (In(stack, v) => low <= idx[v])
    BY <2>1 DEF minimum, onStack, In
  <2>3. lowLink' = [lowLink EXCEPT ![u] = low]
    BY <1>1
  <2> HIDE DEF low
  <2> QED BY <1>2, <1>3, <2>2, <2>3
<1>7. SCCTyped'
  BY <1>0, <1>1, <1>5, <1>6 DEF SCCTyped
<1>8. Numbered' /\ Settled' /\ IdsFollowEdges'
  BY <1>0, <1>1 DEF Numbered, Settled, IdsFollowEdges, Defined
<1>9. Expanded'
  BY <1>0, <1>1, <1>3, <1>5 DEF Expanded, Defined
<1>10. Looked'
  <2> SUFFICES ASSUME NEW e \in edges, Defined(e[1]), e[2] \notin rest'[e[1]],
                      e[2] # currentNeightbor'[e[1]]
               PROVE  /\ Defined(e[2])
                      /\ In(stack, e[2]) =>
                           \A p \in Nodes : Covers(p, e[1]) => lowLink'[p] <= idx[e[2]]
    BY <1>1 DEF Looked, Defined, Covers
  <2>1. e[1] \in Nodes /\ e[2] \in Nodes
    BY <1>0, EdgeEnds
  <2>2. CASE e[1] = u /\ e[2] = v
    <3>1. \A p \in Nodes : Covers(p, u) => p = u
      <4> SUFFICES ASSUME NEW p \in Nodes, Covers(p, u) PROVE p = u
        OBVIOUS
      <4>1. idx[u] \in Nat /\ idx[p] \in Nat
        BY <1>2, <1>3
      <4>2. In(path, p) /\ idx[u] <= idx[p]
        BY <1>3, <4>1 DEF Covers
      <4> QED BY <1>3, <4>1, <4>2
    <3> QED BY <1>1, <1>6, <2>2, <3>1
  <2>3. CASE ~(e[1] = u /\ e[2] = v)
    <3>1. e[2] \notin rest[e[1]] /\ e[2] # currentNeightbor[e[1]]
      BY <1>5, <2>1, <2>3 DEF v
    <3>2. /\ Defined(e[2])
          /\ In(stack, e[2]) => \A p \in Nodes : Covers(p, e[1]) => lowLink[p] <= idx[e[2]]
      BY <1>0, <3>1 DEF Looked
    <3> QED BY <1>2, <1>6, <2>1, <3>2
  <2> QED BY <2>2, <2>3
<1> QED BY <1>7, <1>8, <1>9, <1>10 DEF SCCInv

\* A node that leaves the path hands its lowLink, and the edges that it answers
\* for, to the one below it.
LEMMA LookedHandedDown ==
  ASSUME SCCInv, path # <<>>, NEW u, u = Head(path), path' = Tail(path), HandDown(u, Tail(path)),
         UNCHANGED <<edges, idx, currentNeightbor, rest>>,
         \A w \in Nodes : In(stack', w) => In(stack, w)
  PROVE  Looked' /\ lowLink' \in [Nodes -> Nat]
<1>0. SCCTyped /\ Numbered /\ Looked
  BY DEF SCCInv
<1>1. /\ idx \in [Nodes -> Nat] /\ lowLink \in [Nodes -> Nat] /\ path \in Seq(Nodes)
      /\ Sorted(path, idx)
  BY <1>0 DEF SCCTyped, Numbered
<1>2. /\ u \in Nodes /\ In(path, u) /\ path' \in Seq(Nodes) /\ Sorted(path', idx)
      /\ \A w \in Nodes : In(path, w) => (w = u \/ idx[w] < idx[u]) /\ idx[w] <= idx[u]
      /\ \A w \in Nodes : In(path', w) <=> In(path, w) /\ w # u
      /\ path' = <<>> => \A w \in Nodes : ~In(path', w)
  BY <1>1, Popped
<1>3. ASSUME path' # <<>>
      PROVE  /\ Head(path') \in Nodes
             /\ \A w \in Nodes : In(path', w) => w = Head(path') \/ idx[w] < idx[Head(path')]
             /\ In(path', Head(path'))
  BY <1>1, <1>2, <1>3, Popped
<1> DEFINE h == Head(path')
<1>4. /\ lowLink' \in [Nodes -> Nat] /\ \A w \in Nodes : lowLink'[w] <= lowLink[w]
      /\ path' # <<>> => lowLink'[h] <= lowLink[u]
  <2>1. CASE path' = <<>>
    <3>1. lowLink' = lowLink
      BY <2>1 DEF HandDown
    <3>2. \A w \in Nodes : lowLink[w] \in Nat /\ lowLink[w] <= lowLink[w]
      BY <1>1
    <3> QED BY <1>1, <2>1, <3>1, <3>2
  <2>2. CASE path' # <<>>
    <3>1. h \in Nodes /\ lowLink[h] \in Nat /\ lowLink[u] \in Nat
      BY <1>1, <1>2, <1>3, <2>2
    <3> DEFINE low == minimum(lowLink[u], lowLink[h])
    <3>2. low \in Nat /\ low <= lowLink[u] /\ low <= lowLink[h]
      BY ONLY <3>1 DEF minimum
    <3>3. lowLink' = [lowLink EXCEPT ![h] = low]
      BY <2>2 DEF HandDown
    <3> HIDE DEF low, h
    <3> QED BY <1>1, <3>1, <3>2, <3>3
  <2> QED BY <2>1, <2>2
<1> HIDE DEF h
<1>5. Looked'
  <2> SUFFICES ASSUME NEW e \in edges, Defined(e[1]), e[2] \notin rest[e[1]],
                      e[2] # currentNeightbor[e[1]]
               PROVE  /\ Defined(e[2])
                      /\ In(stack', e[2]) =>
                           \A p \in Nodes : Covers(p, e[1])' => lowLink'[p] <= idx[e[2]]
    BY DEF Looked, Defined
  <2>1. e[1] \in Nodes /\ e[2] \in Nodes /\ idx[e[1]] \in Nat /\ idx[e[2]] \in Nat
    BY <1>0, <1>1, EdgeEnds
  <2>2. /\ Defined(e[2])
        /\ In(stack, e[2]) => \A p \in Nodes : Covers(p, e[1]) => lowLink[p] <= idx[e[2]]
    BY <1>0 DEF Looked
  <2>3. ASSUME In(stack', e[2]), NEW p \in Nodes, Covers(p, e[1])'
        PROVE  lowLink'[p] <= idx[e[2]]
    <3>1. /\ In(path', p) /\ idx[p] <= idx[e[1]] /\ idx[p] \in Nat /\ idx[u] \in Nat
          /\ \A q \in Nodes : In(path', q) /\ idx[q] <= idx[e[1]] => idx[q] <= idx[p]
      BY <1>1, <1>2, <2>3 DEF Covers
    <3>2. In(stack, e[2])
      BY <2>1, <2>3
    <3>3. CASE idx[u] <= idx[e[1]]
      <4>1. \A q \in Nodes : In(path, q) => idx[q] <= idx[u]
        BY ONLY <1>2
      <4>2. Covers(u, e[1])
        BY <1>2, <3>3, <4>1 DEF Covers
      <4>3. lowLink[u] <= idx[e[2]]
        BY <1>2, <2>2, <3>2, <4>2
      <4>4. path' # <<>>
        BY <1>2, <3>1
      <4>5. h \in Nodes /\ In(path', h) /\ idx[h] \in Nat /\ (p = h \/ idx[p] < idx[h])
        BY <1>1, <1>3, <3>1, <4>4 DEF h
      <4>6. idx[h] <= idx[e[1]]
        BY <1>2, <2>1, <3>1, <3>3, <4>1, <4>5
      <4>7. p = h
        BY <3>1, <4>5, <4>6
      <4>8. lowLink'[h] \in Nat /\ lowLink[u] \in Nat /\ lowLink'[h] <= lowLink[u]
        BY <1>1, <1>2, <1>4, <4>4, <4>5
      <4> QED BY <2>1, <4>3, <4>7, <4>8
    <3>4. CASE ~(idx[u] <= idx[e[1]])
      <4>1. \A q \in Nodes : In(path, q) /\ idx[q] <= idx[e[1]] => In(path', q)
        BY <1>2, <3>4
      <4>2. Covers(p, e[1])
        BY <1>2, <3>1, <4>1 DEF Covers
      <4>3. lowLink[p] <= idx[e[2]]
        BY <2>2, <3>2, <4>2
      <4>4. lowLink[p] \in Nat /\ lowLink'[p] \in Nat /\ lowLink'[p] <= lowLink[p]
        BY <1>1, <1>4
      <4> QED BY <2>1, <4>3, <4>4
    <3> QED BY <3>3, <3>4
  <2> QED BY <2>2, <2>3
<1> QED BY <1>4, <1>5

\* What a node that has no neighbours to come leaves when it ends its component:
\* everything from it upwards, and every edge from there leads there or to a
\* component that was closed before.
LEMMA SCCInvClose ==
  ASSUME SCCInv, path # <<>>, NEW u, u = Head(path), path' = Tail(path), HandDown(u, Tail(path)),
         currentNeightbor[u] = ALL_NEIGHBORS_EXPANDED, lowLink[u] = idx[u], Close(u),
         UNCHANGED <<edges, index, idx, currentNeightbor, rest>>
  PROVE  SCCInv'
<1>0. SCCTyped /\ Numbered /\ Settled /\ Expanded /\ Looked /\ IdsFollowEdges
  BY DEF SCCInv
<1>1. /\ idx \in [Nodes -> Nat] /\ lowLink \in [Nodes -> Nat] /\ path \in Seq(Nodes)
      /\ stack \in Seq(Nodes) /\ Sorted(path, idx) /\ Sorted(stack, idx)
      /\ componentId \in Nat \ {0} /\ component_id \in [Nodes -> Nat]
  BY <1>0 DEF SCCTyped, Numbered
<1>2. /\ u \in Nodes /\ In(path, u) /\ path' \in Seq(Nodes) /\ Sorted(path', idx)
      /\ \A w \in Nodes : In(path, w) => (w = u \/ idx[w] < idx[u]) /\ idx[w] <= idx[u]
      /\ \A w \in Nodes : In(path', w) <=> In(path, w) /\ w # u
  BY <1>1, Popped
<1>3. PICK k \in DOMAIN stack :
        /\ stack[k] = u
        /\ component_id' = [v \in Nodes |-> IF \E j \in 1 .. k : stack[j] = v
                                            THEN componentId ELSE component_id[v]]
        /\ stack' = SubSeq(stack, k + 1, Len(stack))
        /\ componentId' = componentId + 1
  BY DEF Close
<1>4. /\ stack' \in Seq(Nodes) /\ Sorted(stack', idx)
      /\ \A w \in Nodes : In(stack', w) <=> In(stack, w) /\ idx[w] < idx[u]
      /\ \A w \in Nodes : (\E j \in 1 .. k : stack[j] = w) <=> In(stack, w) /\ idx[u] <= idx[w]
  <2> DEFINE above == SubSeq(stack, k + 1, Len(stack))
  <2>1. stack \in Seq(Nodes) /\ idx \in [Nodes -> Nat] /\ Sorted(stack, idx)
    BY <1>1
  <2>2. above \in Seq(Nodes) /\ Sorted(above, idx)
    BY ONLY <2>1, CutOff, k \in DOMAIN stack
  <2>3. \A w \in Nodes : In(above, w) <=> In(stack, w) /\ idx[w] < idx[stack[k]]
    BY ONLY <2>1, CutOff, k \in DOMAIN stack
  <2>4. \A w \in Nodes : (\E j \in 1 .. k : stack[j] = w)
                            <=> In(stack, w) /\ idx[stack[k]] <= idx[w]
    BY ONLY <2>1, CutOff, k \in DOMAIN stack
  <2> HIDE DEF above
  <2>5. stack' = above
    BY <1>3 DEF above
  <2> QED BY <1>3, <2>2, <2>3, <2>4, <2>5
<1>5. \A w \in Nodes :
        /\ In(stack, w) /\ idx[u] <= idx[w] => component_id'[w] = componentId
        /\ ~(In(stack, w) /\ idx[u] <= idx[w]) => component_id'[w] = component_id[w]
  <2> SUFFICES ASSUME NEW w \in Nodes
               PROVE  /\ In(stack, w) /\ idx[u] <= idx[w] => component_id'[w] = componentId
                      /\ ~(In(stack, w) /\ idx[u] <= idx[w]) => component_id'[w] = component_id[w]
    OBVIOUS
  <2>1. component_id'[w] = IF \E j \in 1 .. k : stack[j] = w THEN componentId ELSE component_id[w]
    BY <1>3
  <2>2. (\E j \in 1 .. k : stack[j] = w) <=> In(stack, w) /\ idx[u] <= idx[w]
    BY <1>4
  <2> QED BY ONLY <2>1, <2>2
<1>6. component_id' \in [Nodes -> Nat]
  <2> DEFINE value(v) == IF \E j \in 1 .. k : stack[j] = v THEN componentId ELSE component_id[v]
  <2>1. \A v \in Nodes : value(v) \in Nat
    BY <1>1
  <2>2. component_id' = [v \in Nodes |-> value(v)]
    BY <1>3
  <2> HIDE DEF value
  <2> QED BY <2>1, <2>2
<1>7. Looked' /\ lowLink' \in [Nodes -> Nat]
  BY <1>4, LookedHandedDown
<1>8. SCCTyped'
  <2>1. componentId' \in Nat \ {0}
    BY <1>1, <1>3
  <2> QED BY <1>0, <1>1, <1>2, <1>4, <1>6, <1>7, <2>1 DEF SCCTyped
<1>9. Numbered'
  <2>1. \A w \in Nodes : In(path', w) => In(stack', w)
    BY <1>0, <1>2, <1>4 DEF Numbered
  <2> QED BY <1>0, <1>2, <1>4, <2>1 DEF Numbered, Defined
<1>10. Settled'
  <2> SUFFICES ASSUME NEW w \in Nodes
               PROVE  /\ component_id'[w] # 0 => /\ Defined(w) /\ ~In(stack', w)
                                                 /\ component_id'[w] < componentId'
                      /\ Defined(w) <=> In(stack', w) \/ component_id'[w] # 0
    BY DEF Settled, Defined
  <2>1. /\ component_id[w] # 0 => Defined(w) /\ ~In(stack, w) /\ component_id[w] < componentId
        /\ Defined(w) <=> In(stack, w) \/ component_id[w] # 0
    BY <1>0 DEF Settled
  <2>2. idx[w] \in Nat /\ idx[u] \in Nat /\ component_id[w] \in Nat
    BY <1>1, <1>2
  <2>3. CASE In(stack, w) /\ idx[u] <= idx[w]
    <3>1. component_id'[w] = componentId
      BY <1>5, <2>3
    <3>2. componentId # 0 /\ componentId < componentId'
      BY <1>1, <1>3
    <3>3. ~In(stack', w)
      BY <1>4, <2>2, <2>3
    <3> QED BY ONLY <2>1, <2>3, <3>1, <3>2, <3>3
  <2>4. CASE ~(In(stack, w) /\ idx[u] <= idx[w])
    <3>1. component_id'[w] = component_id[w]
      BY <1>5, <2>4
    <3>2. In(stack', w) <=> In(stack, w)
      BY <1>4, <2>2, <2>4
    <3>3. component_id[w] < componentId => component_id[w] < componentId'
      BY <1>1, <1>3, <2>2
    <3> QED BY ONLY <2>1, <3>1, <3>2, <3>3
  <2> QED BY <2>3, <2>4
<1>11. Expanded'
  <2> SUFFICES ASSUME NEW w \in Nodes
               PROVE  /\ Defined(w) /\ ~In(path', w) => currentNeightbor[w] = ALL_NEIGHBORS_EXPANDED
                      /\ currentNeightbor[w] = ALL_NEIGHBORS_EXPANDED => rest[w] = {}
    BY DEF Expanded, Defined
  <2> QED BY <1>0, <1>2 DEF Expanded
<1>12. IdsFollowEdges'
  <2> SUFFICES ASSUME NEW e \in edges, component_id'[e[1]] # 0
               PROVE  component_id'[e[2]] \in 1 .. component_id'[e[1]]
    BY DEF IdsFollowEdges
  <2>1. /\ e[1] \in Nodes /\ e[2] \in Nodes /\ idx[e[1]] \in Nat /\ idx[e[2]] \in Nat
        /\ idx[u] \in Nat /\ component_id[e[2]] \in Nat /\ component_id[e[1]] \in Nat
    BY <1>0, <1>1, <1>2, EdgeEnds
  <2>2. CASE In(stack, e[1]) /\ idx[u] <= idx[e[1]]
    <3>1. component_id'[e[1]] = componentId
      BY <1>5, <2>1, <2>2
    <3>2. Defined(e[1])
      BY <1>0, <2>1, <2>2 DEF Settled
    <3>3. currentNeightbor[e[1]] = ALL_NEIGHBORS_EXPANDED
      <4>1. e[1] = u \/ ~In(path, e[1])
        BY <1>2, <2>1, <2>2
      <4> QED BY <1>0, <2>1, <3>2, <4>1 DEF Expanded
    <3>4. rest[e[1]] = {}
      BY <1>0, <2>1, <3>3 DEF Expanded
    <3>5. e[2] # ALL_NEIGHBORS_EXPANDED
      BY <2>1, AllExpanded
    <3>6. /\ Defined(e[2])
          /\ In(stack, e[2]) => \A p \in Nodes : Covers(p, e[1]) => lowLink[p] <= idx[e[2]]
      BY <1>0, <3>2, <3>3, <3>4, <3>5 DEF Looked
    <3>7. Covers(u, e[1])
      <4>1. \A q \in Nodes : In(path, q) => idx[q] <= idx[u]
        BY ONLY <1>2
      <4> QED BY <1>2, <2>2, <4>1 DEF Covers
    <3>8. CASE In(stack, e[2])
      <4>1. component_id'[e[2]] = componentId
        BY <1>2, <1>5, <2>1, <3>6, <3>7, <3>8
      <4> QED BY <1>1, <3>1, <4>1
    <3>9. CASE ~In(stack, e[2])
      <4>1. component_id[e[2]] # 0 /\ component_id[e[2]] < componentId
        BY <1>0, <2>1, <3>6, <3>9 DEF Settled
      <4>2. component_id'[e[2]] = component_id[e[2]]
        BY <1>5, <2>1, <3>9
      <4>3. component_id[e[2]] \in Nat /\ componentId \in Nat
        BY <1>1, <2>1
      <4>4. component_id[e[2]] \in 1 .. componentId
        BY ONLY <4>1, <4>3
      <4> QED BY <3>1, <4>2, <4>4
    <3> QED BY <3>8, <3>9
  <2>3. CASE ~(In(stack, e[1]) /\ idx[u] <= idx[e[1]])
    <3>1. component_id'[e[1]] = component_id[e[1]]
      BY <1>5, <2>1, <2>3
    <3>2. component_id[e[2]] \in 1 .. component_id[e[1]]
      BY <1>0, <3>1 DEF IdsFollowEdges
    <3>3. ~In(stack, e[2])
      BY <1>0, <2>1, <3>2 DEF Settled
    <3>4. component_id'[e[2]] = component_id[e[2]]
      BY <1>5, <2>1, <3>3
    <3> QED BY <3>1, <3>2, <3>4
  <2> QED BY <2>2, <2>3
<1> QED BY <1>7, <1>8, <1>9, <1>10, <1>11, <1>12 DEF SCCInv

LEMMA SCCInvAscend ==
  ASSUME SCCInv, Ascend
  PROVE  SCCInv'
<1>0. SCCTyped /\ Numbered /\ Settled /\ Expanded /\ Looked /\ IdsFollowEdges
  BY DEF SCCInv
<1> DEFINE u == Head(path)
<1>1. /\ path # <<>> /\ currentNeightbor[u] = ALL_NEIGHBORS_EXPANDED
      /\ path' = Tail(path) /\ HandDown(u, Tail(path))
      /\ UNCHANGED <<edges, index, idx, currentNeightbor, rest>>
  BY DEF Ascend
<1>2. CASE lowLink[u] = idx[u] /\ Close(u)
  BY <1>1, <1>2, SCCInvClose
<1>3. CASE UNCHANGED <<stack, componentId, component_id>>
  <2>1. Looked' /\ lowLink' \in [Nodes -> Nat]
    BY <1>1, <1>3, LookedHandedDown
  <2>2. /\ u \in Nodes /\ path' \in Seq(Nodes) /\ Sorted(path', idx)
        /\ \A w \in Nodes : In(path', w) <=> In(path, w) /\ w # u
    BY <1>0, <1>1, Popped DEF SCCTyped, Numbered
  <2>3. SCCTyped'
    BY <1>0, <1>1, <1>3, <2>1, <2>2 DEF SCCTyped
  <2>4. Numbered'
    BY <1>0, <1>1, <1>3, <2>2 DEF Numbered, Defined
  <2>5. Settled' /\ IdsFollowEdges'
    BY <1>0, <1>1, <1>3 DEF Settled, IdsFollowEdges, Defined
  <2>6. Expanded'
    BY <1>0, <1>1, <2>2 DEF Expanded, Defined
  <2> QED BY <2>1, <2>3, <2>4, <2>5, <2>6 DEF SCCInv
<1> QED BY <1>2, <1>3 DEF Ascend

LEMMA SCCInvStutter ==
  ASSUME SCCInv, UNCHANGED sccVars
  PROVE  SCCInv'
BY DEF sccVars, SCCInv, SCCTyped, Numbered, Settled, Expanded, Looked, Covers, IdsFollowEdges,
   Defined

\* Every step of the algorithm keeps the invariant.
LEMMA SCCInvStep ==
  ASSUME SCCInv, [SCCNext]_sccVars
  PROVE  SCCInv'
<1>1. CASE StartNode
  BY <1>1, SCCInvEnter DEF StartNode
<1>2. CASE Descend
  <2>1. path \in Seq(Nodes) /\ path # <<>> /\ currentNeightbor \in
          [Nodes -> Nodes \cup {ALL_NEIGHBORS_EXPANDED}]
    BY <1>2 DEF Descend, SCCInv, SCCTyped
  <2>2. Head(path) \in Nodes
    BY <2>1
  <2>3. PICK v \in Nodes : ~Defined(v) /\ Enter(v)
    BY <1>2, <2>1, <2>2 DEF Descend
  <2> QED BY <2>3, SCCInvEnter
<1>3. CASE LookAt
  BY <1>3, SCCInvLookAt
<1>4. CASE Ascend
  BY <1>4, SCCInvAscend
<1> QED BY <1>1, <1>2, <1>3, <1>4, SCCInvStutter DEF SCCNext
-----------------------------------------------------------------------------
(* The number of components *)

\* Every id that was given is that of a node.
AllUsed == \A c \in 1 .. componentId - 1 : \E u \in Nodes : component_id[u] = c

\* A component is closed with the node that leads it, which had none.
LEMMA AllUsedStep ==
  ASSUME SCCInv, AllUsed, [SCCNext]_sccVars
  PROVE  AllUsed'
<1>1. CASE UNCHANGED <<componentId, component_id>>
  BY <1>1 DEF AllUsed
<1>2. ASSUME NEW u, Close(u) PROVE AllUsed'
  <2>1. /\ stack \in Seq(Nodes) /\ componentId \in Nat \ {0} /\ Settled
    BY DEF SCCInv, SCCTyped
  <2>2. PICK k \in DOMAIN stack :
          /\ component_id' = [v \in Nodes |-> IF \E j \in 1 .. k : stack[j] = v
                                              THEN componentId ELSE component_id[v]]
          /\ componentId' = componentId + 1
    BY <1>2 DEF Close
  <2>3. k \in 1 .. k /\ stack[k] \in Nodes /\ \A j \in 1 .. k : j \in DOMAIN stack
    BY <2>1
  <2> SUFFICES ASSUME NEW c \in 1 .. componentId' - 1
               PROVE  \E v \in Nodes : component_id'[v] = c
    BY DEF AllUsed
  <2>4. CASE c = componentId
    <3>1. component_id'[stack[k]] = c
      BY <2>2, <2>3, <2>4
    <3> QED BY <2>3, <3>1
  <2>5. CASE c # componentId
    <3>1. c \in 1 .. componentId - 1 /\ c # 0
      BY <2>1, <2>2, <2>5
    <3>2. PICK v \in Nodes : component_id[v] = c
      BY <3>1 DEF AllUsed
    <3>3. ~In(stack, v)
      BY <2>1, <3>1, <3>2 DEF Settled
    <3>4. component_id'[v] = component_id[v]
      BY <2>2, <2>3, <3>3 DEF In
    <3> QED BY <3>2, <3>4
  <2> QED BY <2>4, <2>5
<1> QED BY <1>1, <1>2 DEF SCCNext, StartNode, Descend, LookAt, Ascend, Enter, sccVars

\* There are no more components than nodes.
LEMMA EnoughIds ==
  ASSUME SCCInv, AllUsed
  PROVE  1 .. componentId - 1 \subseteq ComponentIds
<1> DEFINE placed == {u \in Nodes : component_id[u] # 0}
           f      == [u \in placed |-> component_id[u]]
           n      == componentId - 1
<1>1. componentId \in Nat \ {0} /\ component_id \in [Nodes -> Nat] /\ Settled
  BY DEF SCCInv, SCCTyped
<1>2. n \in Nat /\ n + 1 = componentId
  BY <1>1
<1>3. IsFiniteSet(placed) /\ Cardinality(placed) <= Cardinality(Nodes)
  BY NodesAssumption, FS_Subset
<1>4. Cardinality(placed) \in Nat /\ Cardinality(Nodes) \in Nat
  BY <1>3, NodesAssumption, FS_CardinalityType
<1>5. \A u \in placed : f[u] \in 1 .. n
  <2> SUFFICES ASSUME NEW u \in placed PROVE component_id[u] \in 1 .. n
    OBVIOUS
  <2>1. component_id[u] \in Nat /\ component_id[u] # 0 /\ component_id[u] < componentId
    BY <1>1 DEF Settled
  <2> QED BY <1>2, <2>1
<1>6. \A c \in 1 .. n : \E u \in placed : f[u] = c
  <2> SUFFICES ASSUME NEW c \in 1 .. n PROVE \E u \in placed : component_id[u] = c
    OBVIOUS
  <2>1. c # 0
    BY <1>2
  <2> QED BY <2>1 DEF AllUsed
<1>7. f \in Surjection(placed, 1 .. n)
  <2>1. f \in [placed -> 1 .. n]
    BY <1>5
  <2> HIDE DEF f, placed, n
  <2> QED BY <1>6, <2>1 DEF Surjection
<1>8. Cardinality(1 .. n) <= Cardinality(placed) /\ Cardinality(1 .. n) = n
  <2> HIDE DEF f, placed, n
  <2>1. Cardinality(1 .. n) <= Cardinality(placed)
    BY <1>3, <1>7, FS_Surjection
  <2>2. Cardinality(1 .. n) = IF 1 > n THEN 0 ELSE n - 1 + 1
    BY <1>2, FS_Interval
  <2> QED BY <1>2, <2>1, <2>2
<1>9. n <= Cardinality(Nodes)
  <2> HIDE DEF f, placed, n
  <2> QED BY <1>2, <1>3, <1>4, <1>8
<1> QED BY <1>2, <1>4, <1>9 DEF ComponentIds

-----------------------------------------------------------------------------
(* Which nodes lead to which *)

LEMMA LeadsSelf ==
  ASSUME NEW u
  PROVE  Leads(u, u)
<1>1. Cardinality(Nodes) \in Nat /\ 0 \in Nat /\ 0 <= Cardinality(Nodes)
  BY NodesAssumption, FS_CardinalityType
<1>2. Forward(edges, u)[0] \subseteq Forward(edges, u)[Cardinality(Nodes)]
  BY ONLY <1>1, ForwardGrows
<1>3. Forward(edges, u)[0] = {u}
  BY ONLY ForwardStep
<1> QED BY ONLY <1>2, <1>3 DEF Leads

LEMMA LeadsEdge ==
  ASSUME SCCTyped, NEW u \in Nodes, NEW v \in Nodes, <<u, v>> \in edges
  PROVE  Leads(u, v)
<1>1. edges \subseteq Nodes \X Nodes /\ IsFiniteSet(Nodes)
  BY NodesAssumption, PairsAssumption DEF SCCTyped
<1>2. Forward(edges, u)[1] \subseteq Forward(edges, u)[Cardinality(Nodes)]
  BY ONLY <1>1, ForwardSettles, 1 \in Nat, u \in Nodes
<1>3. Forward(edges, u)[0 + 1] = Widen(edges, Forward(edges, u)[0])
      /\ Forward(edges, u)[0] = {u}
  BY ONLY ForwardStep, 0 \in Nat
<1>4. v \in Widen(edges, {u})
  <2> DEFINE e == <<u, v>>
  <2>1. e \in edges /\ e[1] = u /\ e[2] = v
    OBVIOUS
  <2> QED BY <2>1 DEF Widen
<1>5. v \in Forward(edges, u)[1]
  BY <1>3, <1>4
<1> QED BY ONLY <1>2, <1>5 DEF Leads

LEMMA LeadsOn ==
  ASSUME SCCTyped, NEW u \in Nodes, NEW v \in Nodes, NEW w \in Nodes, Leads(u, v), Leads(v, w)
  PROVE  Leads(u, w)
<1>1. edges \subseteq Nodes \X Nodes /\ IsFiniteSet(Nodes) /\ Cardinality(Nodes) \in Nat
  BY NodesAssumption, PairsAssumption, FS_CardinalityType DEF SCCTyped
<1>2. v \in Forward(edges, u)[Cardinality(Nodes)] /\ w \in Forward(edges, v)[Cardinality(Nodes)]
  BY DEF Leads
<1>3. Forward(edges, v)[Cardinality(Nodes)] \subseteq Forward(edges, u)[Cardinality(Nodes)]
  BY ONLY <1>1, <1>2, u \in Nodes, ForwardOn
<1> QED BY <1>2, <1>3 DEF Leads

\* A node leads to nothing outside a set that no edge leaves.
LEMMA LeadsInside ==
  ASSUME NEW u, NEW v, Leads(u, v), NEW C, u \in C, TakesAll(edges, C)
  PROVE  v \in C
<1>1. Cardinality(Nodes) \in Nat
  BY NodesAssumption, FS_CardinalityType
<1>2. Forward(edges, u)[Cardinality(Nodes)] \subseteq C
  BY ONLY <1>1, ForwardStays, u \in C, TakesAll(edges, C)
<1> QED BY <1>2 DEF Leads

-----------------------------------------------------------------------------
(* The components are those of the graph *)

\* The neighbour that a node is looking at and those still to come are its own.
Watched ==
  \A u \in Nodes :
    /\ rest[u] \subseteq Outgoing(u)
    /\ currentNeightbor[u] = ALL_NEIGHBORS_EXPANDED \/ currentNeightbor[u] \in Outgoing(u)

\* A node of the path leads to all that was put on the stack after it.
Below ==
  \A p, w \in Nodes : In(path, p) /\ In(stack, w) /\ idx[p] <= idx[w] => Leads(p, w)

\* A node on the stack leads back to one of the path that was met no later.
Back ==
  \A w \in Nodes : In(stack, w) =>
    \E p \in Nodes : In(path, p) /\ idx[p] <= idx[w] /\ Leads(w, p)

\* Nodes of a component lead to each other.
SameIsMutual ==
  \A u, v \in Nodes : component_id[u] # 0 /\ component_id[u] = component_id[v] => Leads(u, v)

Led == Watched /\ Below /\ Back /\ LowLinkOnStack /\ SameIsMutual

LEMMA LedInit == SCCInit => Led
<1> SUFFICES ASSUME SCCInit PROVE Led
  OBVIOUS
<1>1. /\ rest = [u \in Nodes |-> {}] /\ component_id = [u \in Nodes |-> 0]
      /\ currentNeightbor = [u \in Nodes |-> ALL_NEIGHBORS_EXPANDED]
      /\ stack = <<>> /\ path = <<>>
  BY DEF SCCInit
<1>2. \A u : ~In(stack, u) /\ ~onStack(u)
  BY <1>1 DEF In, onStack
<1>3. Watched /\ Below /\ Back
  BY <1>1, <1>2 DEF Watched, Below, Back
<1>4. LowLinkOnStack /\ SameIsMutual
  BY <1>1, <1>2 DEF LowLinkOnStack, SameIsMutual
<1> QED BY <1>3, <1>4 DEF Led

\* Moving on to the next neighbour leaves only neighbours.
LEMMA WatchedAdvance ==
  ASSUME SCCTyped, Watched, NEW u \in Nodes, NEW N \in SUBSET Outgoing(u), Advance(u, N),
         edges' = edges
  PROVE  Watched'
<1>1. PICK v \in NextOf(N) : /\ currentNeightbor' = [currentNeightbor EXCEPT ![u] = v]
                             /\ rest' = [rest EXCEPT ![u] = N \ {v}]
  BY DEF Advance
<1>2. v = ALL_NEIGHBORS_EXPANDED \/ v \in Outgoing(u)
  BY DEF NextOf
<1>3. \A w : Outgoing(w)' = Outgoing(w)
  BY DEF Outgoing
<1>4. /\ currentNeightbor'[u] = v /\ rest'[u] = N \ {v}
      /\ \A w \in Nodes \ {u} : currentNeightbor'[w] = currentNeightbor[w] /\ rest'[w] = rest[w]
  BY <1>1 DEF SCCTyped
<1> SUFFICES ASSUME NEW w \in Nodes
             PROVE  /\ rest'[w] \subseteq Outgoing(w)
                    /\ currentNeightbor'[w] = ALL_NEIGHBORS_EXPANDED
                       \/ currentNeightbor'[w] \in Outgoing(w)
  BY <1>3 DEF Watched
<1>5. CASE w = u
  BY <1>2, <1>4, <1>5
<1>6. CASE w # u
  BY <1>4, <1>6 DEF Watched
<1> QED BY <1>5, <1>6

\* The node that is met is a neighbour of the node on top of the path.
LEMMA LedEnter ==
  ASSUME SCCInv, Led, NEW u \in Nodes, ~Defined(u), Enter(u),
         path # <<>> => <<Head(path), u>> \in edges
  PROVE  Led'
<1>1. /\ index \in Nat /\ idx \in [Nodes -> Nat] /\ lowLink \in [Nodes -> Nat]
      /\ stack \in Seq(Nodes) /\ path \in Seq(Nodes) /\ Settled /\ Numbered /\ SCCTyped
      /\ Sorted(path, idx)
  BY DEF SCCInv, SCCTyped, Numbered
<1>2. /\ idx' = [idx EXCEPT ![u] = index] /\ lowLink' = [lowLink EXCEPT ![u] = index]
      /\ stack' = <<u>> \o stack /\ path' = <<u>> \o path
      /\ Advance(u, Outgoing(u)) /\ edges' = edges /\ component_id' = component_id
  BY DEF Enter
<1>3. /\ \A w \in Nodes : In(stack', w) <=> w = u \/ In(stack, w)
      /\ \A w \in Nodes : In(path', w) <=> w = u \/ In(path, w)
  BY <1>1, <1>2, InPushed
<1>4. /\ idx'[u] = index /\ lowLink'[u] = index
      /\ \A w \in Nodes : In(stack, w) => w # u /\ idx'[w] = idx[w] /\ lowLink'[w] = lowLink[w]
      /\ \A w \in Nodes : In(path, w) => w # u /\ idx'[w] = idx[w] /\ In(stack, w)
      /\ \A w \in Nodes : idx[w] \in Nat /\ idx[w] < index
  <2>1. \A w \in Nodes : In(stack, w) => w # u
    BY <1>1 DEF Settled
  <2>2. \A w \in Nodes : In(path, w) => In(stack, w)
    BY <1>1 DEF Numbered
  <2> QED BY <1>1, <1>2, <2>1, <2>2 DEF Numbered
<1>5. \A v, w : Leads(v, w)' <=> Leads(v, w)
  BY <1>2 DEF Leads
<1>6. Watched'
  BY <1>1, <1>2, WatchedAdvance DEF Led
<1>7. \A p \in Nodes : In(path, p) => Leads(p, u)
  <2> SUFFICES ASSUME NEW p \in Nodes, In(path, p) PROVE Leads(p, u)
    OBVIOUS
  <2>1. path # <<>>
    BY DEF In
  <2>2. /\ Head(path) \in Nodes /\ In(path, Head(path))
        /\ \A w \in Nodes : In(path, w) => idx[w] <= idx[Head(path)]
    BY <1>1, <2>1, Popped
  <2>3. Leads(p, Head(path))
    BY <1>4, <2>2 DEF Led, Below
  <2>4. Leads(Head(path), u)
    BY <1>1, <2>1, <2>2, LeadsEdge
  <2> QED BY <1>1, <2>2, <2>3, <2>4, LeadsOn
<1>8. Below'
  <2> SUFFICES ASSUME NEW p \in Nodes, NEW w \in Nodes, In(path', p), In(stack', w),
                      idx'[p] <= idx'[w]
               PROVE  Leads(p, w)
    BY <1>5 DEF Below
  <2>1. CASE p = u /\ w = u
    BY <2>1, LeadsSelf
  <2>2. CASE p # u /\ w = u
    BY <1>3, <1>7, <2>2
  <2>3. CASE p = u /\ w # u
    <3>1. idx'[w] = idx[w] /\ idx[w] < index /\ idx[w] \in Nat
      BY <1>3, <1>4, <2>3
    <3>2. index <= idx[w]
      BY <1>4, <2>3, <3>1
    <3> QED BY ONLY <1>1, <3>1, <3>2
  <2>4. CASE p # u /\ w # u
    BY <1>3, <1>4, <2>4 DEF Led, Below
  <2> QED BY <2>1, <2>2, <2>3, <2>4
<1>9. Back'
  <2> SUFFICES ASSUME NEW w \in Nodes, In(stack', w)
               PROVE  \E p \in Nodes : In(path', p) /\ idx'[p] <= idx'[w] /\ Leads(w, p)
    BY <1>5 DEF Back
  <2>1. CASE w = u
    <3>1. In(path', u) /\ idx'[u] <= idx'[u] /\ Leads(u, u)
      BY <1>1, <1>3, <1>4, LeadsSelf
    <3> QED BY <2>1, <3>1
  <2>2. CASE w # u
    <3>1. PICK p \in Nodes : In(path, p) /\ idx[p] <= idx[w] /\ Leads(w, p)
      BY <1>3, <2>2 DEF Led, Back
    <3> QED BY <1>3, <1>4, <2>2, <3>1
  <2> QED BY <2>1, <2>2
<1>10. LowLinkOnStack'
  <2> SUFFICES ASSUME NEW w \in Nodes, In(stack', w)
               PROVE  \E v \in Nodes : /\ In(stack', v) /\ idx'[v] = lowLink'[w]
                                       /\ lowLink'[w] <= idx'[w] /\ Leads(w, v)
    BY <1>5 DEF LowLinkOnStack, onStack, In
  <2>1. CASE w = u
    <3>1. In(stack', u) /\ idx'[u] = lowLink'[u] /\ lowLink'[u] <= idx'[u] /\ Leads(u, u)
      BY <1>1, <1>3, <1>4, LeadsSelf
    <3> QED BY <2>1, <3>1
  <2>2. CASE w # u
    <3>1. PICK v \in Nodes : /\ In(stack, v) /\ idx[v] = lowLink[w]
                             /\ lowLink[w] <= idx[w] /\ Leads(w, v)
      BY <1>3, <2>2 DEF Led, LowLinkOnStack, onStack, In
    <3> QED BY <1>3, <1>4, <2>2, <3>1
  <2> QED BY <2>1, <2>2
<1>11. SameIsMutual'
  BY <1>2, <1>5 DEF Led, SameIsMutual
<1> QED BY <1>6, <1>8, <1>9, <1>10, <1>11 DEF Led

\* A lowLink that is lowered is lowered to the number of a neighbour on the stack.
LEMMA LedLookAt ==
  ASSUME SCCInv, Led, LookAt
  PROVE  Led'
<1> DEFINE u == Head(path)
           v == currentNeightbor[u]
           low == IF onStack(v) THEN minimum(lowLink[u], idx[v]) ELSE lowLink[u]
<1>1. /\ idx \in [Nodes -> Nat] /\ lowLink \in [Nodes -> Nat] /\ path \in Seq(Nodes)
      /\ SCCTyped /\ path # <<>> /\ v # ALL_NEIGHBORS_EXPANDED
      /\ UNCHANGED <<edges, idx, stack, path, component_id>> /\ Advance(u, rest[u])
  BY DEF SCCInv, SCCTyped, LookAt
<1>2. u \in Nodes
  BY <1>1
<1>3. v \in Outgoing(u) /\ rest[u] \in SUBSET Outgoing(u)
  BY <1>1, <1>2 DEF Led, Watched
<1>4. <<u, v>> \in edges /\ v \in Nodes
  <2>1. PICK e \in edges : e[1] = u /\ e[2] = v
    BY <1>3 DEF Outgoing
  <2> QED BY <1>1, <2>1, EdgeEnds
<1>5. lowLink' = [lowLink EXCEPT ![u] = low]
  BY DEF LookAt
<1>6. low = lowLink[u] \/ (In(stack, v) /\ low = idx[v] /\ low <= lowLink[u])
  <2>1. lowLink[u] \in Nat /\ idx[v] \in Nat
    BY <1>1, <1>2, <1>4
  <2> QED BY ONLY <2>1 DEF minimum, onStack, In
<1> HIDE DEF u, v, low
<1>7. Leads(u, v)
  BY <1>1, <1>2, <1>4, LeadsEdge
<1>8. \A x, y : Leads(x, y)' <=> Leads(x, y)
  BY <1>1 DEF Leads
<1>9. Watched'
  BY <1>1, <1>2, <1>3, WatchedAdvance DEF Led
<1>10. Below' /\ Back' /\ SameIsMutual'
  BY <1>1, <1>8 DEF Led, Below, Back, SameIsMutual
<1>11. LowLinkOnStack'
  <2> SUFFICES ASSUME NEW w \in Nodes, In(stack, w)
               PROVE  \E x \in Nodes : /\ In(stack, x) /\ idx[x] = lowLink'[w]
                                       /\ lowLink'[w] <= idx[w] /\ Leads(w, x)
    BY <1>1, <1>8 DEF LowLinkOnStack, onStack, In
  <2>1. PICK x \in Nodes : /\ In(stack, x) /\ idx[x] = lowLink[w]
                           /\ lowLink[w] <= idx[w] /\ Leads(w, x)
    BY DEF Led, LowLinkOnStack, onStack, In
  <2>2. CASE lowLink'[w] = lowLink[w]
    BY <2>1, <2>2
  <2>3. CASE lowLink'[w] # lowLink[w]
    <3>1. w = u /\ lowLink'[w] = low /\ In(stack, v) /\ low = idx[v] /\ low <= lowLink[w]
      BY <1>1, <1>2, <1>5, <1>6, <2>3
    <3>2. low <= idx[w]
      <4>1. low \in Nat /\ lowLink[w] \in Nat /\ idx[w] \in Nat
        BY <1>1, <1>4, <3>1
      <4> QED BY ONLY <2>1, <3>1, <4>1
    <3> QED BY <1>4, <1>7, <3>1, <3>2
  <2> QED BY <2>2, <2>3
<1> QED BY <1>9, <1>10, <1>11 DEF Led

\* What is below a node on the stack was met before it.
LEMMA ClosedStack ==
  ASSUME SCCInv, NEW u, Close(u)
  PROVE  \A w \in Nodes : In(stack', w) <=> In(stack, w) /\ idx[w] < idx[u]
<1>1. stack \in Seq(Nodes) /\ idx \in [Nodes -> Nat] /\ Sorted(stack, idx)
  BY DEF SCCInv, SCCTyped, Numbered
<1>2. PICK k \in DOMAIN stack : stack[k] = u /\ stack' = SubSeq(stack, k + 1, Len(stack))
  BY DEF Close
<1> DEFINE above == SubSeq(stack, k + 1, Len(stack))
<1>3. \A w \in Nodes : In(above, w) <=> In(stack, w) /\ idx[w] < idx[stack[k]]
  BY ONLY <1>1, CutOff, k \in DOMAIN stack
<1> HIDE DEF above
<1>4. stack' = above
  BY <1>2 DEF above
<1> QED BY <1>2, <1>3, <1>4

\* A node leaves the path with its whole component, or because its lowLink leads
\* below it.
LEMMA LedAscend ==
  ASSUME SCCInv, Led, Ascend
  PROVE  Led'
<1> DEFINE u == Head(path)
           h == Head(path')
<1>1. /\ idx \in [Nodes -> Nat] /\ lowLink \in [Nodes -> Nat] /\ path \in Seq(Nodes)
      /\ SCCTyped /\ Settled /\ Sorted(path, idx)
      /\ path # <<>> /\ path' = Tail(path) /\ HandDown(u, path')
      /\ UNCHANGED <<edges, idx, currentNeightbor, rest>>
      /\ \A w \in Nodes : In(path, w) => In(stack, w)
  BY DEF SCCInv, SCCTyped, Numbered, Ascend
<1>2. /\ u \in Nodes /\ In(path, u) /\ path' \in Seq(Nodes) /\ Sorted(path', idx)
      /\ \A w \in Nodes : In(path', w) <=> In(path, w) /\ w # u
      /\ \A w \in Nodes : In(path, w) => w = u \/ idx[w] < idx[u]
      /\ \A w \in Nodes : In(path, w) => idx[w] <= idx[u]
  BY <1>1, Popped
<1>3. path' # <<>> => h \in Nodes /\ In(path', h)
  BY <1>1, <1>2, Popped
<1>4. PICK v \in Nodes : /\ In(stack, v) /\ idx[v] = lowLink[u]
                         /\ lowLink[u] <= idx[u] /\ Leads(u, v)
  BY <1>1, <1>2 DEF Led, LowLinkOnStack, onStack, In
\* The only lowLink that changes.
<1>5. \A w \in Nodes : \/ lowLink'[w] = lowLink[w]
                       \/ /\ In(path', w) /\ lowLink'[w] = lowLink[u]
                          /\ lowLink[u] < lowLink[w]
  <2>1. CASE path' = <<>>
    BY <1>1, <2>1 DEF HandDown
  <2>2. CASE path' # <<>>
    <3> DEFINE low == minimum(lowLink[u], lowLink[h])
    <3>1. low = lowLink[h] \/ (low = lowLink[u] /\ lowLink[u] < lowLink[h])
      BY DEF minimum
    <3>2. lowLink' = [lowLink EXCEPT ![h] = low]
      BY <1>1, <2>2 DEF HandDown
    <3> HIDE DEF low, h
    <3> QED BY <1>1, <1>3, <2>2, <3>1, <3>2
  <2> QED BY <2>1, <2>2
<1>6. \/ lowLink[u] = idx[u] /\ Close(u)
      \/ lowLink[u] # idx[u] /\ stack' = stack /\ component_id' = component_id
  BY DEF Ascend
<1> HIDE DEF u, h
<1>7. \A x, y : Leads(x, y)' <=> Leads(x, y)
  BY <1>1 DEF Leads
<1>8. Watched'
  BY <1>1 DEF Led, Watched, Outgoing
<1>9. \A w \in Nodes : In(stack, w) => Leads(w, u) \/ idx[w] < idx[u]
  <2> SUFFICES ASSUME NEW w \in Nodes, In(stack, w), ~(idx[w] < idx[u]) PROVE Leads(w, u)
    OBVIOUS
  <2>1. PICK p \in Nodes : In(path, p) /\ idx[p] <= idx[w] /\ Leads(w, p)
    BY DEF Led, Back
  <2>2. Leads(p, u)
    BY <1>1, <1>2, <2>1 DEF Led, Below
  <2> QED BY <1>1, <1>2, <2>1, <2>2, LeadsOn
<1>10. CASE lowLink[u] # idx[u]
  <2>1. stack' = stack /\ component_id' = component_id
    BY <1>6, <1>10
  <2>2. Below' /\ SameIsMutual'
    BY <1>1, <1>2, <1>7, <2>1 DEF Led, Below, SameIsMutual
\* v leads to a node of the path that is left.
  <2>3. PICK p \in Nodes : In(path, p) /\ idx[p] <= idx[v] /\ Leads(v, p)
    BY <1>4 DEF Led, Back
  <2>4. idx[p] < idx[u] /\ In(path', p)
    <3>1. idx[p] \in Nat /\ idx[v] \in Nat /\ idx[u] \in Nat
      BY <1>1, <1>2
    <3>2. idx[p] < idx[u]
      BY ONLY <1>4, <1>10, <2>3, <3>1
    <3>3. p # u
      BY ONLY <3>1, <3>2
    <3> QED BY <1>2, <2>3, <3>2, <3>3
  <2>5. Leads(u, p)
    BY <1>1, <1>2, <1>4, <2>3, LeadsOn
  <2>6. Back'
    <3> SUFFICES ASSUME NEW w \in Nodes, In(stack, w)
                 PROVE  \E q \in Nodes : In(path', q) /\ idx[q] <= idx[w] /\ Leads(w, q)
      BY <1>1, <1>7, <2>1 DEF Back
    <3>1. PICK q \in Nodes : In(path, q) /\ idx[q] <= idx[w] /\ Leads(w, q)
      BY DEF Led, Back
    <3>2. CASE q = u
      <4>1. Leads(w, p)
        BY <1>1, <1>2, <2>5, <3>1, <3>2, LeadsOn
      <4>2. idx[p] \in Nat /\ idx[w] \in Nat /\ idx[u] \in Nat
        BY <1>1, <1>2
      <4>3. idx[p] <= idx[w]
        BY ONLY <2>4, <3>1, <3>2, <4>2
      <4> QED BY <2>4, <4>1, <4>3
    <3>3. CASE q # u
      BY <1>2, <3>1, <3>3
    <3> QED BY <3>2, <3>3
  <2>7. LowLinkOnStack'
    <3> SUFFICES ASSUME NEW w \in Nodes, In(stack, w)
                 PROVE  \E x \in Nodes : /\ In(stack, x) /\ idx[x] = lowLink'[w]
                                         /\ lowLink'[w] <= idx[w] /\ Leads(w, x)
      BY <1>1, <1>7, <2>1 DEF LowLinkOnStack, onStack, In
    <3>1. PICK x \in Nodes : /\ In(stack, x) /\ idx[x] = lowLink[w]
                             /\ lowLink[w] <= idx[w] /\ Leads(w, x)
      BY DEF Led, LowLinkOnStack, onStack, In
    <3>2. CASE lowLink'[w] = lowLink[w]
      BY <3>1, <3>2
    <3>3. CASE In(path', w) /\ lowLink'[w] = lowLink[u] /\ lowLink[u] < lowLink[w]
      <4>1. In(path, w) /\ idx[w] <= idx[u] /\ In(stack, u)
        BY <1>1, <1>2, <3>3
      <4>2. Leads(w, u)
        BY <1>2, <4>1 DEF Led, Below
      <4>3. Leads(w, v)
        BY <1>1, <1>2, <1>4, <4>2, LeadsOn
      <4>4. lowLink[u] \in Nat /\ lowLink[w] \in Nat /\ idx[w] \in Nat
        BY <1>1, <1>2
      <4>5. lowLink'[w] <= idx[w]
        BY ONLY <3>1, <3>3, <4>4
      <4> QED BY <1>4, <3>3, <4>3, <4>5
    <3> QED BY <1>5, <3>2, <3>3
  <2> QED BY <1>8, <2>2, <2>6, <2>7 DEF Led
<1>11. CASE lowLink[u] = idx[u]
  <2>1. \A x \in Nodes : In(stack', x) <=> In(stack, x) /\ idx[x] < idx[u]
    BY <1>6, <1>11, ClosedStack
  <2>2. Below'
    BY <1>1, <1>2, <1>7, <2>1 DEF Led, Below
  <2>3. Back'
    <3> SUFFICES ASSUME NEW w \in Nodes, In(stack, w), idx[w] < idx[u]
                 PROVE  \E q \in Nodes : In(path', q) /\ idx[q] <= idx[w] /\ Leads(w, q)
      BY <1>1, <1>7, <2>1 DEF Back
    <3>1. PICK q \in Nodes : In(path, q) /\ idx[q] <= idx[w] /\ Leads(w, q)
      BY DEF Led, Back
    <3>2. idx[q] \in Nat /\ idx[w] \in Nat /\ idx[u] \in Nat
      BY <1>1, <1>2
    <3>3. q # u
      BY ONLY <3>1, <3>2, idx[w] < idx[u]
    <3> QED BY <1>2, <3>1, <3>3
  <2>4. LowLinkOnStack'
    <3> SUFFICES ASSUME NEW w \in Nodes, In(stack, w), idx[w] < idx[u]
                 PROVE  \E x \in Nodes : /\ In(stack', x) /\ idx[x] = lowLink'[w]
                                         /\ lowLink'[w] <= idx[w] /\ Leads(w, x)
      BY <1>1, <1>7, <2>1 DEF LowLinkOnStack, onStack, In
    <3>1. PICK x \in Nodes : /\ In(stack, x) /\ idx[x] = lowLink[w]
                             /\ lowLink[w] <= idx[w] /\ Leads(w, x)
      BY DEF Led, LowLinkOnStack, onStack, In
    <3>2. /\ idx[x] \in Nat /\ idx[w] \in Nat /\ idx[u] \in Nat /\ lowLink[w] \in Nat
          /\ lowLink[u] \in Nat
      BY <1>1, <1>2
    <3>3. idx[x] < idx[u] /\ ~(lowLink[u] < lowLink[w])
      BY ONLY <1>11, <3>1, <3>2, idx[w] < idx[u]
    <3>4. lowLink'[w] = lowLink[w]
      BY <1>5, <3>3
    <3> QED BY <2>1, <3>1, <3>3, <3>4
  <2>5. SameIsMutual'
    <3>1. PICK k \in DOMAIN stack :
            /\ stack[k] = u
            /\ component_id' = [x \in Nodes |-> IF \E j \in 1 .. k : stack[j] = x
                                                THEN componentId ELSE component_id[x]]
      BY <1>6, <1>11 DEF Close
    <3>2. \A x \in Nodes :
            (\E j \in 1 .. k : stack[j] = x) <=> In(stack, x) /\ idx[u] <= idx[x]
      <4> DEFINE above == SubSeq(stack, k + 1, Len(stack))
      <4>1. stack \in Seq(Nodes) /\ idx \in [Nodes -> Nat] /\ Sorted(stack, idx)
        BY DEF SCCInv, SCCTyped, Numbered
      <4>2. above = SubSeq(stack, k + 1, Len(stack))
        OBVIOUS
      <4> HIDE DEF above
      <4>3. \A x \in Nodes :
              (\E j \in 1 .. k : stack[j] = x) <=> In(stack, x) /\ idx[stack[k]] <= idx[x]
        BY ONLY <4>1, <4>2, CutOff, k \in DOMAIN stack
      <4> QED BY <3>1, <4>3
    <3>3. \A x \in Nodes : component_id[x] # 0 => component_id[x] < componentId
      BY <1>1 DEF Settled
    <3>4. componentId \in Nat /\ component_id \in [Nodes -> Nat]
      BY <1>1 DEF SCCTyped
    <3> SUFFICES ASSUME NEW x \in Nodes, NEW y \in Nodes, component_id'[x] # 0,
                        component_id'[x] = component_id'[y]
                 PROVE  Leads(x, y)
      BY <1>7 DEF SameIsMutual
    <3>5. CASE In(stack, x) /\ idx[u] <= idx[x]
      <4>1. component_id'[x] = componentId
        BY <3>1, <3>2, <3>5
      <4>2. In(stack, y) /\ idx[u] <= idx[y]
        <5>1. \/ In(stack, y) /\ idx[u] <= idx[y]
              \/ component_id'[y] = component_id[y]
          BY <3>1, <3>2
        <5>2. component_id[y] \in Nat
          BY <3>4
        <5>3. component_id[y] # componentId
          BY <3>3, <3>4, <4>1, <5>2
        <5> QED BY <4>1, <5>1, <5>3
      <4>3. Leads(x, u)
        <5>1. idx[u] \in Nat /\ idx[x] \in Nat
          BY <1>1, <1>2
        <5>2. ~(idx[x] < idx[u])
          BY ONLY <3>5, <5>1
        <5> QED BY <1>9, <3>5, <5>2
      <4>4. Leads(u, y)
        BY <1>2, <4>2 DEF Led, Below
      <4> QED BY <1>1, <1>2, <4>3, <4>4, LeadsOn
    <3>6. CASE ~(In(stack, x) /\ idx[u] <= idx[x])
      <4>1. component_id'[x] = component_id[x]
        BY <3>1, <3>2, <3>6
      <4>2. component_id[x] # componentId
        <5>1. component_id[x] \in Nat /\ component_id[x] < componentId
          BY <3>3, <3>4, <4>1
        <5> QED BY ONLY <3>4, <5>1
      <4>3. component_id'[y] = component_id[y]
        BY <3>1, <4>1, <4>2
      <4> QED BY <4>1, <4>3 DEF Led, SameIsMutual
    <3> QED BY <3>5, <3>6
  <2> QED BY <1>8, <2>2, <2>3, <2>4, <2>5 DEF Led
<1> QED BY <1>10, <1>11

\* Every step of the algorithm keeps it.
LEMMA LedStep ==
  ASSUME SCCInv, Led, [SCCNext]_sccVars
  PROVE  Led'
<1>1. CASE StartNode
  BY <1>1, LedEnter DEF StartNode
<1>2. CASE Descend
  <2>1. /\ SCCTyped /\ path \in Seq(Nodes) /\ path # <<>>
        /\ currentNeightbor[Head(path)] # ALL_NEIGHBORS_EXPANDED
    BY <1>2 DEF Descend, SCCInv, SCCTyped
  <2>2. Head(path) \in Nodes
    BY <2>1
  <2>3. currentNeightbor[Head(path)] \in Outgoing(Head(path))
    BY <2>1, <2>2 DEF Led, Watched
  <2>4. PICK e \in edges : e[1] = Head(path) /\ e[2] = currentNeightbor[Head(path)]
    BY <2>3 DEF Outgoing
  <2>5. e[2] \in Nodes /\ e = <<Head(path), e[2]>>
    BY <2>1, <2>4, EdgeEnds
  <2>6. ~Defined(e[2]) /\ Enter(e[2])
    BY <1>2, <2>4 DEF Descend
  <2>7. <<Head(path), e[2]>> \in edges
    BY <2>5
  <2> QED BY <2>5, <2>6, <2>7, LedEnter
<1>3. CASE LookAt
  BY <1>3, LedLookAt
<1>4. CASE Ascend
  BY <1>4, LedAscend
<1>5. CASE UNCHANGED sccVars
  BY <1>5 DEF sccVars, Led, Watched, Below, Back, LowLinkOnStack, SameIsMutual, Leads, Outgoing,
     onStack, In
<1> QED BY <1>1, <1>2, <1>3, <1>4, <1>5 DEF SCCNext

\* Edges lead to components that were closed before, so that nodes that lead to
\* each other are in the same.
LEMMA ComponentsFollow ==
  ASSUME SCCInv, Led
  PROVE  ComponentsAreMutual
<1> SUFFICES ASSUME NEW u \in Nodes, NEW v \in Nodes, component_id[u] # 0
             PROVE  component_id[u] = component_id[v] <=> Leads(u, v) /\ Leads(v, u)
  BY DEF ComponentsAreMutual
<1>1. SCCTyped /\ IdsFollowEdges
  BY DEF SCCInv
<1>2. \A w \in Nodes : component_id[w] \in Nat
  BY <1>1 DEF SCCTyped
<1>3. ASSUME NEW x \in Nodes, NEW y \in Nodes, component_id[x] # 0, Leads(x, y)
      PROVE  component_id[y] # 0 /\ component_id[y] <= component_id[x]
  <2> DEFINE C == {w \in Nodes : component_id[w] \in 1 .. component_id[x]}
  <2>1. x \in C
    BY <1>2, <1>3
  <2>2. ASSUME NEW e \in edges, e[1] \in C PROVE e[2] \in C
    <3>1. e[1] \in Nodes /\ e[2] \in Nodes /\ component_id[e[1]] \in 1 .. component_id[x]
      BY <1>1, <2>2, EdgeEnds
    <3>2. /\ component_id[e[1]] \in Nat /\ component_id[e[2]] \in Nat
          /\ component_id[x] \in Nat
      BY <1>2, <3>1
    <3>3. component_id[e[1]] # 0
      BY ONLY <3>1, <3>2
    <3>4. component_id[e[2]] \in 1 .. component_id[e[1]]
      BY <1>1, <3>3 DEF IdsFollowEdges
    <3>5. component_id[e[2]] \in 1 .. component_id[x]
      BY ONLY <3>1, <3>2, <3>4
    <3> QED BY <3>1, <3>5
  <2>3. TakesAll(edges, C)
    BY <2>2 DEF TakesAll
  <2>4. y \in C
    <3> HIDE DEF C
    <3> QED BY ONLY <1>3, <2>1, <2>3, LeadsInside
  <2> QED BY <1>2, <1>3, <2>4
<1>4. ASSUME Leads(u, v), Leads(v, u) PROVE component_id[u] = component_id[v]
  <2>1. component_id[v] # 0 /\ component_id[v] <= component_id[u]
    BY <1>3, <1>4
  <2>2. component_id[u] <= component_id[v]
    BY <1>3, <1>4, <2>1
  <2> QED BY <1>2, <2>1, <2>2
<1>5. ASSUME component_id[u] = component_id[v] PROVE Leads(u, v) /\ Leads(v, u)
  BY <1>5 DEF Led, SameIsMutual
<1> QED BY <1>4, <1>5

\* When the algorithm is done every node has its component.
LEMMA AllPlaced ==
  ASSUME SCCInv, Led, SCCDone
  PROVE  \A u \in Nodes : component_id[u] # 0
<1>1. \A u \in Nodes : ~In(path, u)
  BY DEF SCCDone, In
<1>2. \A u \in Nodes : ~In(stack, u)
  BY <1>1 DEF Led, Back
<1> QED BY <1>2 DEF SCCInv, Settled, SCCDone

-----------------------------------------------------------------------------
(* The walk of the GRAIL index: the inductive invariant *)

\* The variables keep to their types; edges lead to lesser ids, and to no root.
Typed ==
  /\ hEdges \subseteq Edges
  /\ rootNodes \subseteq {c \in Ids : \A e \in hEdges : e[2] # c}
  /\ lable \in 1 .. LableCount + 1
  /\ roots \subseteq rootNodes
  /\ rankCounter \in Nat \ {0}
  /\ gStack \in Seq([node : Ids, min : Int])
  /\ expanded \in [Ids -> SUBSET Ids]
  /\ tagsTable \in [Labels -> [Ids -> [minRank : Int, rank : Int]]]
  /\ lable \notin Labels => gStack = <<>> /\ roots = {}

\* An interval is unset or begins at 1 or later; the labels after the one under
\* construction are unset, and its ranks are below the counter.
Intervals ==
  /\ \A i \in Labels, c \in Ids :
       tagsTable[i][c] = Unset \/ (/\ 1 <= tagsTable[i][c].minRank
                                   /\ tagsTable[i][c].minRank <= tagsTable[i][c].rank)
  /\ \A i \in Labels, c \in Ids : i > lable => tagsTable[i][c] = Unset
  /\ lable \in Labels => \A c \in Ids : Tag(c).rank < rankCounter

\* Ids grow down the stack: no component is on it twice.
Ordered == \A j, k \in DOMAIN gStack : j < k => gStack[j].node < gStack[k].node

\* Components on the stack, and roots to come, have no interval yet; one that is
\* neither has one or has not been touched.
Fresh ==
  lable \in Labels =>
    /\ \A k \in DOMAIN gStack : Tag(gStack[k].node) = Unset
    /\ \A r \in roots : Tag(r) = Unset /\ \A k \in DOMAIN gStack : gStack[k].node # r
    /\ \A c \in Ids : \/ expanded[c] = {}
                      \/ Tag(c) # Unset
                      \/ \E k \in DOMAIN gStack : gStack[k].node = c

\* What a frame has seen: each neighbour taken has its interval, which does not
\* begin before the frame's min, or is the frame above.
Seen(k, d) == \/ Tag(d) # Unset /\ gStack[k].min # -1 /\ gStack[k].min <= Tag(d).minRank
              \/ k > 1 /\ d = gStack[k - 1].node

Frames ==
  lable \in Labels =>
    \A k \in DOMAIN gStack :
      /\ gStack[k].min = -1 \/ (1 <= gStack[k].min /\ gStack[k].min <= rankCounter)
      /\ \A d \in expanded[gStack[k].node] : Seen(k, d)

GrailInv == Typed /\ Intervals /\ IntervalsNest /\ Ordered /\ Fresh /\ Frames

-----------------------------------------------------------------------------
\* The invariant holds when the first label is begun.
LEMMA GrailInvInit == GrailInit => GrailInv
<1> SUFFICES ASSUME GrailInit PROVE GrailInv
  OBVIOUS
<1> USE LableAssumption DEF Labels
<1>1. Typed
  BY DEF GrailInit, Typed, Unset
<1>2. \A i \in Labels, c \in Ids : tagsTable[i][c] = Unset
  BY DEF GrailInit
<1>3. Intervals
  BY <1>2 DEF Intervals, GrailInit, Tag, Unset
<1>4. IntervalsNest
  BY <1>2 DEF IntervalsNest, GrailInit, Edges
<1>5. Ordered /\ Frames
  BY DEF GrailInit, Ordered, Frames
<1>6. Fresh
  BY <1>2 DEF GrailInit, Fresh, Tag
<1> QED BY <1>1, <1>3, <1>4, <1>5, <1>6 DEF GrailInv

\* A step that changes nothing keeps it.
LEMMA GrailInvStutter == GrailInv /\ UNCHANGED grailVars => GrailInv'
<1> SUFFICES ASSUME GrailInv, UNCHANGED grailVars PROVE GrailInv'
  OBVIOUS
<1>1. UNCHANGED <<components, hEdges, rootNodes, lable, roots, gStack, rankCounter, expanded,
                  tagsTable>>
  BY DEF grailVars, hyperGraph
<1>2. Typed'
  BY <1>1 DEF GrailInv, Typed, Edges
<1>3. Intervals' /\ IntervalsNest'
  BY <1>1 DEF GrailInv, Intervals, IntervalsNest, Tag
<1>4. Ordered' /\ Fresh' /\ Frames'
  BY <1>1 DEF GrailInv, Ordered, Fresh, Frames, Seen, Tag
<1> QED BY <1>2, <1>3, <1>4 DEF GrailInv

\* A label is begun on intervals that are unset.
LEMMA GrailInvNextLable == GrailInv /\ NextLable => GrailInv'
<1> SUFFICES ASSUME GrailInv, NextLable PROVE GrailInv'
  OBVIOUS
<1> USE LableAssumption DEF Labels
<1>0. Typed /\ Intervals /\ IntervalsNest
  BY DEF GrailInv
<1>1. /\ lable \in Labels /\ lable' = lable + 1 /\ gStack' = <<>> /\ rankCounter' = 1
      /\ expanded' = [c \in Ids |-> {}]
      /\ roots' = IF lable' \in Labels THEN rootNodes ELSE {}
      /\ UNCHANGED <<hEdges, rootNodes, tagsTable>>
  BY DEF NextLable, BeginLable, hyperGraph
<1>2. Typed'
  BY <1>0, <1>1 DEF Typed, Edges
<1>3. lable' \in Labels => \A c \in Ids : Tag(c)' = Unset
  BY <1>0, <1>1 DEF Typed, Intervals, Tag
<1>4. Intervals'
  BY <1>0, <1>1, <1>3 DEF Typed, Intervals, Unset, Tag
<1>5. IntervalsNest'
  BY <1>0, <1>1 DEF IntervalsNest
<1>6. Ordered' /\ Frames'
  BY <1>1 DEF Ordered, Frames
<1>7. Fresh'
  BY <1>0, <1>1, <1>3 DEF Fresh, Typed
<1> QED BY <1>2, <1>4, <1>5, <1>6, <1>7 DEF GrailInv

\* A walk starts from a root that has no interval.
LEMMA GrailInvStartRoot == GrailInv /\ StartRoot => GrailInv'
<1> SUFFICES ASSUME GrailInv, StartRoot PROVE GrailInv'
  OBVIOUS
<1> USE LableAssumption DEF Labels
<1>0. Typed /\ Intervals /\ IntervalsNest /\ Fresh
  BY DEF GrailInv
<1>1. PICK r \in roots :
        /\ lable \in Labels /\ gStack = <<>>
        /\ roots' = roots \ {r}
        /\ gStack' = <<Frame(r, rankCounter)>>
        /\ tagsTable' = [tagsTable EXCEPT ![lable][r].minRank = -1]
        /\ UNCHANGED <<hEdges, rootNodes, lable, rankCounter, expanded>>
  BY DEF StartRoot, hyperGraph
<1>2. r \in Ids /\ tagsTable[lable][r] = Unset
  BY <1>0, <1>1 DEF Typed, Fresh, Tag
<1>3. tagsTable' = tagsTable
  BY <1>0, <1>1, <1>2 DEF Typed, Unset
<1>4. gStack' = <<[node |-> r, min |-> rankCounter]>> /\ DOMAIN gStack' = {1}
      /\ gStack'[1] = [node |-> r, min |-> rankCounter]
  BY <1>1 DEF Frame
<1>5. Typed'
  <2>1. /\ hEdges' \subseteq Edges /\ lable' \in 1 .. LableCount + 1 /\ rankCounter' \in Nat \ {0}
        /\ rootNodes' \subseteq {x \in Ids : \A e \in hEdges' : e[2] # x}
        /\ roots' \subseteq rootNodes' /\ expanded' \in [Ids -> SUBSET Ids]
        /\ tagsTable' \in [Labels -> [Ids -> [minRank : Int, rank : Int]]]
    BY <1>0, <1>1, <1>3 DEF Typed
  <2>2. gStack' \in Seq([node : Ids, min : Int])
    <3>1. [node |-> r, min |-> rankCounter] \in [node : Ids, min : Int]
      BY <1>0, <1>2 DEF Typed
    <3> QED BY <1>4, <3>1
  <2>3. lable' \in Labels
    BY <1>1
  <2> QED BY <2>1, <2>2, <2>3 DEF Typed, Edges
<1>6. Intervals' /\ IntervalsNest'
  BY <1>0, <1>1, <1>3 DEF Intervals, IntervalsNest, Tag
<1>7. Ordered'
  BY <1>4 DEF Ordered
<1>8. expanded[r] = {}
  BY <1>0, <1>1, <1>2 DEF Fresh, Tag
<1>9. Fresh'
  BY <1>0, <1>1, <1>2, <1>3, <1>4 DEF Fresh, Tag
<1>10. Frames'
  BY <1>0, <1>1, <1>4, <1>8 DEF Frames, Seen, Typed
<1> QED BY <1>5, <1>6, <1>7, <1>9, <1>10 DEF GrailInv

-----------------------------------------------------------------------------
\* The stack as a function.
LEMMA StackFacts ==
  ASSUME Typed, gStack # <<>>
  PROVE  /\ Len(gStack) \in Nat \ {0} /\ DOMAIN gStack = 1 .. Len(gStack)
         /\ 1 \in DOMAIN gStack /\ Head(gStack) = gStack[1]
         /\ \A k \in DOMAIN gStack : /\ gStack[k] \in [node : Ids, min : Int]
                                     /\ gStack[k].node \in Ids /\ gStack[k].min \in Int
<1>1. gStack \in Seq([node : Ids, min : Int])
  BY DEF Typed
<1>2. Len(gStack) \in Nat \ {0}
  BY <1>1, EmptySeq
<1>3. DOMAIN gStack = 1 .. Len(gStack)
  BY <1>1, LenProperties
<1>4. \A k \in DOMAIN gStack : gStack[k] \in [node : Ids, min : Int]
  BY <1>1, <1>3, ElementOfSeq
<1>5. Head(gStack) = gStack[1]
  BY <1>1
<1> QED BY <1>2, <1>3, <1>4, <1>5

\* What a frame is, and what Lowered makes of it.
LEMMA LoweredFrame ==
  ASSUME NEW frame \in [node : Ids, min : Int], NEW min \in Int
  PROVE  /\ Lowered(frame, min) \in [node : Ids, min : Int]
         /\ Lowered(frame, min).node = frame.node
         /\ Lowered(frame, min).min = IF frame.min = -1 \/ min < frame.min THEN min ELSE frame.min
BY DEF Lowered

\* A neighbour that has its interval lowers the frame on top.
LEMMA GrailInvLower ==
  ASSUME GrailInv, lable \in Labels, gStack # <<>>,
         NEW c, c = gStack[1].node, NEW d \in Neighbors(c), Tag(d).minRank # -1,
         expanded' = [expanded EXCEPT ![c] = @ \cup {d}],
         gStack' = [gStack EXCEPT ![1] = Lowered(@, Tag(d).minRank)],
         UNCHANGED <<hEdges, rootNodes, lable, roots, rankCounter, tagsTable>>
  PROVE  GrailInv'
<1> USE LableAssumption DEF Labels
<1>0. Typed /\ Intervals /\ IntervalsNest /\ Ordered /\ Fresh /\ Frames
  BY DEF GrailInv
<1>1. /\ Len(gStack) \in Nat \ {0} /\ DOMAIN gStack = 1 .. Len(gStack)
      /\ \A k \in DOMAIN gStack : gStack[k] \in [node : Ids, min : Int]
  BY <1>0, StackFacts
<1>. 1 \in DOMAIN gStack /\ gStack[1].node \in Ids /\ gStack[1].min \in Int
  BY <1>0, StackFacts
<1>2. c \in Ids /\ d \in Ids
  BY DEF Neighbors
<1>3. /\ Tag(d) \in [minRank : Int, rank : Int] /\ Tag(d) # Unset
      /\ 1 <= Tag(d).minRank /\ Tag(d).minRank < rankCounter
  <2>1. lable \in Labels /\ tagsTable[lable][d] \in [minRank : Int, rank : Int]
    BY <1>0, <1>2 DEF Typed
  <2>2. tagsTable[lable][d].minRank # -1
    BY DEF Tag
  <2>3. tagsTable[lable][d] # Unset
    BY <2>2 DEF Unset
  <2>4. /\ 1 <= tagsTable[lable][d].minRank
        /\ tagsTable[lable][d].minRank <= tagsTable[lable][d].rank
        /\ tagsTable[lable][d].rank < rankCounter
    BY <1>0, <1>2, <2>3 DEF Intervals, Tag
  <2>5. /\ tagsTable[lable][d].minRank \in Int /\ tagsTable[lable][d].rank \in Int
        /\ rankCounter \in Int
    <3>1. rankCounter \in Int
      BY <1>0 DEF Typed
    <3> QED BY ONLY <2>1, <3>1
  <2>6. tagsTable[lable][d].minRank < rankCounter
    BY <2>4, <2>5
  <2> QED BY <2>1, <2>3, <2>4, <2>6 DEF Tag
<1> DEFINE low == Lowered(gStack[1], Tag(d).minRank)
<1>4. /\ low \in [node : Ids, min : Int] /\ low.node = c
      /\ low.min = IF gStack[1].min = -1 \/ Tag(d).minRank < gStack[1].min
                   THEN Tag(d).minRank ELSE gStack[1].min
  <2>1. gStack[1] \in [node : Ids, min : Int] /\ Tag(d).minRank \in Int
    BY <1>1, <1>3
  <2> QED BY <2>1, LoweredFrame
<1>5. /\ gStack' \in Seq([node : Ids, min : Int]) /\ DOMAIN gStack' = DOMAIN gStack
      /\ gStack'[1] = low /\ \A k \in DOMAIN gStack \ {1} : gStack'[k] = gStack[k]
  <2>1. gStack' = [gStack EXCEPT ![1] = low]
    OBVIOUS
  <2> HIDE DEF low
  <2>2. gStack' \in Seq([node : Ids, min : Int])
    BY <1>0, <1>1, <1>4, <2>1, ExceptSeq DEF Typed
  <2>3. gStack' \in [DOMAIN gStack -> [node : Ids, min : Int]]
    BY <1>1, <1>4, <2>1
  <2> QED BY <1>1, <2>1, <2>2, <2>3
<1> HIDE DEF low
<1>6. \A k \in DOMAIN gStack : gStack'[k].node = gStack[k].node
  BY <1>1, <1>4, <1>5
<1>7. Typed'
  BY <1>0, <1>2, <1>5 DEF Typed, Edges
<1>8. Intervals' /\ IntervalsNest'
  BY <1>0 DEF Intervals, IntervalsNest, Tag
<1>9. Ordered'
  BY <1>0, <1>5, <1>6 DEF Ordered
<1>10. Fresh'
  <2>1. \A x \in Ids : x # c => expanded'[x] = expanded[x]
    BY <1>0, <1>2 DEF Typed
  <2>2. \E k \in DOMAIN gStack' : gStack'[k].node = c
    BY <1>1, <1>5, <1>6
  <2>3. \A x \in Ids : \/ expanded'[x] = {} \/ Tag(x)' # Unset
                         \/ \E k \in DOMAIN gStack' : gStack'[k].node = x
    <3> SUFFICES ASSUME NEW x \in Ids, x # c
                 PROVE  \/ expanded'[x] = {} \/ Tag(x)' # Unset
                        \/ \E k \in DOMAIN gStack' : gStack'[k].node = x
      BY <2>2
    <3>1. Tag(x)' = Tag(x)
      BY DEF Tag
    <3>2. \/ expanded[x] = {} \/ Tag(x) # Unset
          \/ \E k \in DOMAIN gStack : gStack[k].node = x
      BY <1>0 DEF Fresh
    <3> QED BY <1>5, <1>6, <2>1, <3>1, <3>2
  <2> QED BY <1>0, <1>5, <1>6, <2>3 DEF Fresh, Tag
<1>11. Frames'
  <2> SUFFICES ASSUME NEW k \in DOMAIN gStack
               PROVE  /\ \/ gStack'[k].min = -1
                         \/ 1 <= gStack'[k].min /\ gStack'[k].min <= rankCounter
                      /\ \A x \in expanded'[gStack'[k].node] : Seen(k, x)'
    BY <1>5 DEF Frames
  <2>1. CASE k = 1
    <3>1. expanded'[c] = expanded[c] \cup {d}
      BY <1>0, <1>2 DEF Typed
    <3>2. \A x \in expanded[c] : Tag(x) # Unset /\ gStack[1].min # -1
                                 /\ gStack[1].min <= Tag(x).minRank
      BY <1>0, <1>1 DEF Frames, Seen
    <3>3. \A x \in expanded[c] : Tag(x).minRank \in Int
      BY <1>0, <1>2 DEF Typed, Tag
    <3>4. \A x \in expanded[c] \cup {d} : Tag(x) # Unset /\ low.min <= Tag(x).minRank
      BY <1>1, <1>3, <1>4, <3>2, <3>3
    <3>5. 1 <= low.min /\ low.min <= rankCounter
      <4>1. \/ gStack[1].min = -1
            \/ 1 <= gStack[1].min /\ gStack[1].min <= rankCounter
        BY <1>0 DEF Frames
      <4>2. Tag(d).minRank \in Int /\ rankCounter \in Int
        BY <1>0, <1>3 DEF Typed
      <4> QED BY <1>3, <1>4, <4>1, <4>2
    <3> QED BY <1>4, <1>5, <2>1, <3>1, <3>4, <3>5 DEF Seen, Tag
  <2>2. CASE k # 1
    <3>1. gStack'[k] = gStack[k] /\ gStack[k].node \in Ids /\ c \in Int /\ k \in Int /\ k > 1
      BY <1>1, <1>2, <1>5, <2>2, IdsAssumption
    <3>4. gStack[k].node # c
      BY <1>0, <3>1 DEF Ordered
    <3>2. expanded'[gStack[k].node] = expanded[gStack[k].node]
      BY <1>0, <1>2, <3>1, <3>4 DEF Typed
    <3>3. k - 1 \in DOMAIN gStack
      BY <1>1, <2>2
    <3> QED BY <1>0, <1>6, <3>1, <3>2, <3>3 DEF Frames, Seen, Tag
  <2> QED BY <2>1, <2>2
<1> QED BY <1>7, <1>8, <1>9, <1>10, <1>11 DEF GrailInv

\* A neighbour without an interval goes on top of the stack: it is no root and,
\* its id being less than all of theirs, none of the components on the stack.
LEMMA GrailInvPush ==
  ASSUME GrailInv, lable \in Labels, gStack # <<>>,
         NEW c, c = gStack[1].node, NEW d \in Neighbors(c), Tag(d).minRank = -1,
         expanded' = [expanded EXCEPT ![c] = @ \cup {d}],
         gStack' = <<Frame(d, -1)>> \o gStack,
         UNCHANGED <<hEdges, rootNodes, lable, roots, rankCounter, tagsTable>>
  PROVE  GrailInv'
<1> USE LableAssumption DEF Labels
<1>0. Typed /\ Intervals /\ IntervalsNest /\ Ordered /\ Fresh /\ Frames
  BY DEF GrailInv
<1>1. /\ Len(gStack) \in Nat \ {0} /\ DOMAIN gStack = 1 .. Len(gStack) /\ 1 \in DOMAIN gStack
      /\ \A k \in DOMAIN gStack : /\ gStack[k] \in [node : Ids, min : Int]
                                  /\ gStack[k].node \in Ids /\ gStack[k].min \in Int
  BY <1>0, StackFacts
<1>2. c \in Ids /\ d \in Ids /\ d < c /\ d \notin rootNodes
  <2>1. <<c, d>> \in hEdges /\ c \in Ids /\ d \in Ids
    BY <1>1 DEF Neighbors
  <2> QED BY <1>0, <2>1 DEF Typed, Edges
<1>3. \A x \in Ids : x \in Nat
  BY IdsAssumption
<1>4. Tag(d) = Unset
  BY <1>0, <1>2 DEF Intervals, Tag
<1>5. \A k \in DOMAIN gStack : d < gStack[k].node
  <2> SUFFICES ASSUME NEW k \in DOMAIN gStack PROVE d < gStack[k].node
    OBVIOUS
  <2>1. k = 1 \/ c < gStack[k].node
    <3>1. k = 1 \/ 1 < k
      BY <1>1
    <3>2. 1 < k => gStack[1].node < gStack[k].node
      BY ONLY <1>0, <1>1, k \in DOMAIN gStack DEF Ordered
    <3> QED BY <3>1, <3>2
  <2>2. c \in Nat /\ d \in Nat /\ gStack[k].node \in Nat
    BY <1>1, <1>2, <1>3
  <2> QED BY <1>2, <2>1, <2>2
<1>6. expanded[d] = {} /\ expanded'[d] = {}
  <2>1. expanded[d] = {}
    BY <1>0, <1>1, <1>2, <1>3, <1>4, <1>5 DEF Fresh
  <2>2. c # d
    BY <1>2, <1>3
  <2> QED BY <1>0, <1>2, <2>1, <2>2 DEF Typed
<1>7. /\ gStack' \in Seq([node : Ids, min : Int])
      /\ DOMAIN gStack' = 1 .. Len(gStack) + 1
      /\ gStack'[1] = [node |-> d, min |-> -1]
      /\ \A k \in DOMAIN gStack' \ {1} : k - 1 \in DOMAIN gStack /\ gStack'[k] = gStack[k - 1]
      /\ \A k \in DOMAIN gStack : k + 1 \in DOMAIN gStack' /\ gStack'[k + 1] = gStack[k]
  <2> DEFINE top == <<[node |-> d, min |-> -1]>>
  <2>1. top \in Seq([node : Ids, min : Int]) /\ Len(top) = 1 /\ top[1] = [node |-> d, min |-> -1]
    BY <1>2
  <2>2. gStack \in Seq([node : Ids, min : Int])
    BY <1>0 DEF Typed
  <2>3. gStack' = top \o gStack
    BY DEF Frame
  <2> HIDE DEF top
  <2>4. /\ gStack' \in Seq([node : Ids, min : Int])
        /\ Len(gStack') = 1 + Len(gStack)
        /\ \A k \in 1 .. 1 + Len(gStack) :
             gStack'[k] = IF k <= 1 THEN top[k] ELSE gStack[k - 1]
    BY <2>1, <2>2, <2>3, ConcatProperties
  <2>5. DOMAIN gStack' = 1 .. Len(gStack) + 1
    BY <1>1, <2>4, LenProperties
  <2>6. gStack'[1] = [node |-> d, min |-> -1]
    BY <1>1, <2>1, <2>4
  <2>7. \A k \in DOMAIN gStack' \ {1} : k - 1 \in DOMAIN gStack /\ gStack'[k] = gStack[k - 1]
    BY ONLY <1>1, <2>4, <2>5
  <2>8. \A k \in DOMAIN gStack : k + 1 \in DOMAIN gStack' /\ gStack'[k + 1] = gStack[k]
    <3> SUFFICES ASSUME NEW k \in DOMAIN gStack
                 PROVE  k + 1 \in DOMAIN gStack' /\ gStack'[k + 1] = gStack[k]
      OBVIOUS
    <3>1. k + 1 \in DOMAIN gStack' \ {1} /\ (k + 1) - 1 = k
      BY ONLY <1>1, <2>5, k \in DOMAIN gStack
    <3> QED BY ONLY <2>7, <3>1
  <2> QED BY <2>4, <2>5, <2>6, <2>7, <2>8
<1>8. Typed'
  BY ZenonT(40), <1>0, <1>2, <1>7 DEF Typed, Edges
<1>9. Intervals' /\ IntervalsNest'
  BY <1>0 DEF Intervals, IntervalsNest, Tag
<1>10. Ordered'
  <2> SUFFICES ASSUME NEW j \in DOMAIN gStack', NEW k \in DOMAIN gStack', j < k
               PROVE  gStack'[j].node < gStack'[k].node
    BY DEF Ordered
  <2>1. k # 1 /\ gStack'[k] = gStack[k - 1] /\ k - 1 \in DOMAIN gStack
    BY <1>1, <1>7
  <2>2. CASE j = 1
    BY <1>5, <1>7, <2>1, <2>2
  <2>3. CASE j # 1
    <3>1. gStack'[j] = gStack[j - 1] /\ j - 1 \in DOMAIN gStack /\ j - 1 < k - 1
      BY SMTT(30), <1>1, <1>7, <2>3
    <3> QED BY <1>0, <2>1, <3>1 DEF Ordered
  <2> QED BY <2>2, <2>3
<1>11. Fresh'
  <2>0. \A k \in DOMAIN gStack' : \/ gStack'[k].node = d
                                  \/ \E m \in DOMAIN gStack : gStack'[k].node = gStack[m].node
    BY ONLY <1>7
  <2>1. \A k \in DOMAIN gStack' : Tag(gStack'[k].node) = Unset
    BY <1>0, <1>4, <2>0 DEF Fresh
  <2>2. \A r \in roots : Tag(r) = Unset /\ \A k \in DOMAIN gStack' : gStack'[k].node # r
    <3>1. \A r \in roots : r # d
      BY <1>0, <1>2 DEF Typed
    <3> QED BY <1>0, <2>0, <3>1 DEF Fresh
  <2>3. \A x \in Ids : x # c => expanded'[x] = expanded[x]
    BY <1>0, <1>2 DEF Typed
  <2>4. \E k \in DOMAIN gStack' : gStack'[k].node = c
    BY <1>1, <1>7
  <2>5. \A x \in Ids : (\E k \in DOMAIN gStack : gStack[k].node = x)
                         => \E k \in DOMAIN gStack' : gStack'[k].node = x
    BY <1>7
  <2>6. \A x \in Ids : \/ expanded'[x] = {} \/ Tag(x) # Unset
                       \/ \E k \in DOMAIN gStack' : gStack'[k].node = x
    BY <1>0, <2>3, <2>4, <2>5 DEF Fresh
  <2> QED BY <2>1, <2>2, <2>6 DEF Fresh, Tag
<1>12. Frames'
  <2> SUFFICES ASSUME NEW k \in DOMAIN gStack'
               PROVE  /\ \/ gStack'[k].min = -1
                         \/ 1 <= gStack'[k].min /\ gStack'[k].min <= rankCounter
                      /\ \A x \in expanded'[gStack'[k].node] : Seen(k, x)'
    BY DEF Frames
  <2>1. CASE k = 1
    BY <1>6, <1>7, <2>1
  <2>2. CASE k # 1
    <3>1. /\ k - 1 \in DOMAIN gStack /\ gStack'[k] = gStack[k - 1] /\ k > 1 /\ k \in Int
          /\ gStack[k - 1].node \in Ids
      BY <1>1, <1>7, <2>2
    <3>2. k > 2 => k - 1 \in DOMAIN gStack' \ {1} /\ gStack'[k - 1] = gStack[(k - 1) - 1]
      BY SMTT(30), <1>1, <1>7
    <3>3. \A x \in expanded[gStack[k - 1].node] : Seen(k, x)'
      BY <1>0, <1>1, <3>1, <3>2 DEF Frames, Seen, Tag
    <3>4. /\ expanded'[c] = expanded[c] \cup {d}
          /\ \A x \in Ids : x # c => expanded'[x] = expanded[x]
      BY <1>0, <1>2 DEF Typed
    <3>5. gStack[k - 1].node = c => k = 2
      <4>0. 1 < k - 1 => gStack[1].node < gStack[k - 1].node
        BY ONLY <1>0, <1>1, <3>1 DEF Ordered
      <4>1. k = 2 \/ c < gStack[k - 1].node
        BY <3>1, <4>0
      <4>2. c \in Nat
        BY <1>2, <1>3
      <4> QED BY <4>1, <4>2
    <3>6. k = 2 => Seen(k, d)'
      BY <1>7 DEF Seen
    <3>7. \A x \in expanded'[gStack'[k].node] : Seen(k, x)'
      BY <3>1, <3>3, <3>4, <3>5, <3>6
    <3> QED BY <1>0, <3>1, <3>7 DEF Frames
  <2> QED BY <2>1, <2>2
<1> QED BY <1>8, <1>9, <1>10, <1>11, <1>12 DEF GrailInv

\* The neighbour that a component takes is walked first or lowers its frame.
LEMMA GrailInvVisit == GrailInv /\ Visit => GrailInv'
<1> SUFFICES ASSUME GrailInv, Visit PROVE GrailInv'
  OBVIOUS
<1>1. PICK d \in Neighbors(Head(gStack).node) \ expanded[Head(gStack).node] :
        /\ expanded' = [expanded EXCEPT ![Head(gStack).node] = @ \cup {d}]
        /\ Look(Head(gStack).node, d)
  BY DEF Visit
<1>2. /\ lable \in Labels /\ gStack # <<>>
      /\ UNCHANGED <<hEdges, rootNodes, lable, roots, rankCounter, tagsTable>>
  BY DEF Visit, hyperGraph
<1>3. Head(gStack) = gStack[1]
  BY <1>2, StackFacts DEF GrailInv
<1>4. CASE Tag(d).minRank = -1
  BY <1>1, <1>2, <1>3, <1>4, GrailInvPush DEF Look
<1>5. CASE Tag(d).minRank # -1
  BY <1>1, <1>2, <1>3, <1>5, GrailInvLower DEF Look
<1> QED BY <1>4, <1>5

-----------------------------------------------------------------------------
\* What remains of the stack when its top frame goes: the frames below, one
\* place higher, the first of them lowered.
LEMMA HandedStack ==
  ASSUME Typed, gStack # <<>>, NEW min \in Int
  PROVE  /\ Handed(min) \in Seq([node : Ids, min : Int])
         /\ DOMAIN Handed(min) = 1 .. Len(gStack) - 1
         /\ \A k \in DOMAIN Handed(min) :
              /\ k \in Nat \ {0} /\ k + 1 \in DOMAIN gStack
              /\ Handed(min)[k].node = gStack[k + 1].node
              /\ k = 1 => Handed(min)[k] = Lowered(gStack[2], min)
              /\ k # 1 => Handed(min)[k] = gStack[k + 1]
         /\ \A k \in DOMAIN gStack \ {1} : k - 1 \in DOMAIN Handed(min) /\ k = (k - 1) + 1
<1> DEFINE F == [node : Ids, min : Int]
           below == Tail(gStack)
           low == Lowered(below[1], min)
<1>1. gStack \in Seq(F)
  BY DEF Typed
<1>2. /\ Len(gStack) \in Nat \ {0} /\ DOMAIN gStack = 1 .. Len(gStack)
  BY StackFacts
<1> HIDE DEF F
<1>3. /\ below \in Seq(F) /\ Len(below) = Len(gStack) - 1
      /\ \A k \in 1 .. Len(below) : below[k] = gStack[k + 1]
  BY <1>1, HeadTailProperties
<1>4. DOMAIN below = 1 .. Len(below)
  BY <1>3, LenProperties
<1> HIDE DEF below
<1>5. CASE below = <<>>
  <2>1. Handed(min) = below
    BY <1>5 DEF Handed, below
  <2>2. Len(below) = 0
    BY <1>5
  <2>3. DOMAIN gStack = {1} /\ DOMAIN Handed(min) = {}
    <3>1. Len(gStack) = 1
      <4>1. Len(gStack) - 1 = 0
        BY <1>3, <2>2
      <4>2. \A n \in Nat : n - 1 = 0 => n = 1
        OBVIOUS
      <4> QED BY ONLY <1>2, <4>1, <4>2
    <3>2. DOMAIN gStack = {1}
      BY <1>2, <3>1
    <3>3. DOMAIN Handed(min) = 1 .. 0
      BY <1>4, <2>1, <2>2
    <3> QED BY <3>2, <3>3
  <2> QED BY <1>2, <1>3, <1>4, <2>1, <2>2, <2>3 DEF F
<1>6. CASE below # <<>>
  <2>1. Handed(min) = [below EXCEPT ![1] = low]
    BY <1>6 DEF Handed, below
  <2>2. Len(below) \in Nat \ {0}
    BY <1>3, <1>6, EmptySeq
  <2>3. below[1] \in F /\ below[1] = gStack[2]
    BY <1>3, <2>2, ElementOfSeq
  <2>4. low \in F /\ low.node = gStack[2].node
    BY ZenonT(40), <2>3, LoweredFrame DEF F
  <2> HIDE DEF low
  <2>5. /\ Handed(min) \in Seq(F) /\ Len(Handed(min)) = Len(below)
        /\ \A k \in 1 .. Len(below) : Handed(min)[k] = IF k = 1 THEN low ELSE below[k]
    BY <1>3, <2>1, <2>2, <2>4, ExceptSeq
  <2>6. DOMAIN Handed(min) = 1 .. Len(gStack) - 1
    BY <1>3, <2>5, LenProperties
  <2>7. \A k \in DOMAIN Handed(min) :
          /\ k \in Nat \ {0} /\ k + 1 \in DOMAIN gStack
          /\ k = 1 => Handed(min)[k] = low
          /\ k # 1 => Handed(min)[k] = gStack[k + 1]
    BY <1>2, <1>3, <2>5, <2>6
  <2>8. \A k \in DOMAIN Handed(min) : Handed(min)[k].node = gStack[k + 1].node
    BY <2>4, <2>7
  <2>9. \A k \in DOMAIN gStack \ {1} : k - 1 \in DOMAIN Handed(min) /\ k = (k - 1) + 1
    BY <1>2, <2>6
  <2> QED BY <2>3, <2>5, <2>6, <2>7, <2>8, <2>9 DEF F, low
<1> QED BY <1>5, <1>6

\* A component gets its interval once all its neighbours have theirs, none of
\* which begins before its own.  No component that leads to it has one yet.
LEMMA GrailInvRank ==
  ASSUME GrailInv, lable \in Labels, gStack # <<>>,
         NEW c, c = gStack[1].node,
         NEW min \in Int, 1 <= min, min <= rankCounter,
         \A d \in Neighbors(c) : Tag(d) # Unset /\ min <= Tag(d).minRank,
         Rank(min)
  PROVE  GrailInv'
<1> USE LableAssumption DEF Labels
<1> DEFINE tag == [minRank |-> min, rank |-> rankCounter]
<1>0. Typed /\ Intervals /\ IntervalsNest /\ Ordered /\ Fresh /\ Frames
  BY DEF GrailInv
<1>1. /\ Len(gStack) \in Nat \ {0} /\ DOMAIN gStack = 1 .. Len(gStack)
      /\ 1 \in DOMAIN gStack /\ Head(gStack) = gStack[1]
      /\ \A k \in DOMAIN gStack : /\ gStack[k] \in [node : Ids, min : Int]
                                  /\ gStack[k].node \in Ids /\ gStack[k].min \in Int
  BY <1>0, StackFacts
<1>2. /\ tagsTable' = [tagsTable EXCEPT ![lable][c] = tag]
      /\ gStack' = Handed(min) /\ rankCounter' = rankCounter + 1
      /\ UNCHANGED <<hEdges, rootNodes, lable, roots, expanded>>
  BY <1>1 DEF Rank, hyperGraph
<1>3. /\ c \in Ids /\ Tag(c) = Unset /\ rankCounter \in Nat \ {0}
      /\ \A x \in Ids : x \in Nat
  BY <1>0, <1>1, IdsAssumption DEF Fresh, Typed
<1>4. /\ tag \in [minRank : Int, rank : Int] /\ tag # Unset
      /\ tag.minRank = min /\ tag.rank = rankCounter
  BY <1>3 DEF Unset
<1> HIDE DEF tag
<1>5. /\ tagsTable' \in [Labels -> [Ids -> [minRank : Int, rank : Int]]]
      /\ tagsTable'[lable][c] = tag
      /\ \A i \in Labels, x \in Ids :
           i # lable \/ x # c => tagsTable'[i][x] = tagsTable[i][x]
  BY <1>0, <1>2, <1>3, <1>4 DEF Typed
<1>6. /\ gStack' \in Seq([node : Ids, min : Int])
      /\ \A k \in DOMAIN gStack' :
           /\ k \in Nat \ {0} /\ k + 1 \in DOMAIN gStack
           /\ gStack'[k].node = gStack[k + 1].node
           /\ k = 1 => gStack'[k] = Lowered(gStack[2], min)
           /\ k # 1 => gStack'[k] = gStack[k + 1]
      /\ \A k \in DOMAIN gStack \ {1} : k - 1 \in DOMAIN gStack' /\ k = (k - 1) + 1
  BY <1>0, <1>2, HandedStack
<1>7. Typed'
  <2>1. /\ hEdges' \subseteq Edges /\ rootNodes' \subseteq {x \in Ids : \A e \in hEdges' : e[2] # x}
        /\ lable' \in 1 .. LableCount + 1 /\ roots' \subseteq rootNodes'
        /\ expanded' \in [Ids -> SUBSET Ids] /\ lable' \in Labels
    BY <1>0, <1>2 DEF Typed
  <2>2. rankCounter' \in Nat \ {0}
    BY <1>2, <1>3
  <2> QED BY <1>5, <1>6, <2>1, <2>2 DEF Typed, Edges
<1>8. Intervals'
  <2>1. \A i \in Labels, x \in Ids :
          tagsTable'[i][x] = Unset \/ (/\ 1 <= tagsTable'[i][x].minRank
                                       /\ tagsTable'[i][x].minRank <= tagsTable'[i][x].rank)
    BY <1>0, <1>4, <1>5 DEF Intervals
  <2>2. \A i \in Labels, x \in Ids : i > lable => tagsTable'[i][x] = Unset
    <3>1. \A i \in Labels : i > lable => i # lable
      OBVIOUS
    <3>2. \A i \in Labels, x \in Ids : i > lable => tagsTable[i][x] = Unset
      BY <1>0 DEF Intervals
    <3> QED BY ONLY <1>5, <3>1, <3>2
  <2>3. \A x \in Ids : tagsTable'[lable][x].rank < rankCounter'
    <3> SUFFICES ASSUME NEW x \in Ids PROVE tagsTable'[lable][x].rank < rankCounter'
      OBVIOUS
    <3>1. CASE x = c
      BY <1>2, <1>3, <1>4, <1>5, <3>1
    <3>2. CASE x # c
      <4>1. tagsTable'[lable][x] = tagsTable[lable][x] /\ tagsTable[lable][x].rank < rankCounter
        BY <1>0, <1>5, <3>2 DEF Intervals, Tag
      <4>2. tagsTable[lable][x].rank \in Int
        BY <1>0 DEF Typed
      <4> QED BY <1>2, <1>3, <4>1, <4>2
    <3> QED BY <3>1, <3>2
  <2> QED BY <1>2, <2>1, <2>2, <2>3 DEF Intervals, Tag
<1>9. IntervalsNest'
  <2> DEFINE Nest(s, f) == s # Unset => /\ s.minRank <= f.minRank /\ f.rank < s.rank
                                        /\ 1 <= f.minRank /\ f.minRank <= f.rank
  <2> SUFFICES ASSUME NEW i \in Labels, NEW e \in hEdges
               PROVE  Nest(tagsTable'[i][e[1]], tagsTable'[i][e[2]])
    BY <1>2 DEF IntervalsNest
  <2>1. e = <<e[1], e[2]>> /\ e[1] \in Ids /\ e[2] \in Ids /\ e[2] < e[1]
    BY <1>0 DEF Typed, Edges
  <2>2. Nest(tagsTable[i][e[1]], tagsTable[i][e[2]])
    BY <1>0 DEF IntervalsNest
  <2>3. CASE i = lable /\ e[1] = c
    <3>1. e[2] \in Neighbors(c) /\ e[2] # c
      BY <1>3, <2>1, <2>3 DEF Neighbors
    <3>2. tagsTable[lable][e[2]] # Unset /\ min <= tagsTable[lable][e[2]].minRank
      BY <3>1 DEF Tag
    <3>3. /\ 1 <= tagsTable[lable][e[2]].minRank
          /\ tagsTable[lable][e[2]].minRank <= tagsTable[lable][e[2]].rank
          /\ tagsTable[lable][e[2]].rank < rankCounter
      BY <1>0, <2>1, <3>2 DEF Intervals, Tag
    <3>4. tagsTable'[i][e[1]] = tag /\ tagsTable'[i][e[2]] = tagsTable[lable][e[2]]
      BY <1>5, <2>1, <2>3, <3>1
    <3> QED BY <1>4, <3>2, <3>3, <3>4
  <2>4. CASE i = lable /\ e[2] = c
    <3>1. tagsTable[i][c] = Unset
      BY <1>3, <2>4 DEF Tag
    <3>2. tagsTable[i][e[1]] = Unset
      BY <2>2, <2>4, <3>1 DEF Unset
    <3>3. e[1] # c
      BY <1>3, <2>1, <2>4
    <3>4. tagsTable'[i][e[1]] = Unset
      BY <1>5, <2>1, <3>2, <3>3
    <3> QED BY <3>4
  <2>5. CASE i # lable \/ (e[1] # c /\ e[2] # c)
    BY <1>5, <2>1, <2>2, <2>5
  <2> QED BY <2>3, <2>4, <2>5
<1>10. Ordered'
  <2> SUFFICES ASSUME NEW j \in DOMAIN gStack', NEW k \in DOMAIN gStack', j < k
               PROVE  gStack'[j].node < gStack'[k].node
    BY DEF Ordered
  <2>1. j + 1 \in DOMAIN gStack /\ k + 1 \in DOMAIN gStack /\ j + 1 < k + 1
    BY <1>6
  <2>2. gStack[j + 1].node < gStack[k + 1].node
    BY <1>0, <2>1 DEF Ordered
  <2> QED BY <1>6, <2>2
\* The component is on the stack no more.
<1>11. \A k \in DOMAIN gStack' : gStack'[k].node \in Ids /\ gStack'[k].node # c
  <2> SUFFICES ASSUME NEW k \in DOMAIN gStack'
               PROVE  gStack'[k].node \in Ids /\ gStack'[k].node # c
    OBVIOUS
  <2>1. /\ k + 1 \in DOMAIN gStack /\ 1 < k + 1 /\ gStack'[k].node = gStack[k + 1].node
        /\ gStack'[k].node \in Ids
    BY <1>1, <1>6
  <2>2. c < gStack'[k].node
    BY <1>0, <1>1, <2>1 DEF Ordered
  <2> QED BY <1>3, <2>1, <2>2
<1>12. Fresh'
  <2>0. /\ \A k \in DOMAIN gStack : tagsTable[lable][gStack[k].node] = Unset
        /\ \A r \in roots : /\ tagsTable[lable][r] = Unset
                            /\ \A k \in DOMAIN gStack : gStack[k].node # r
        /\ \A x \in Ids : \/ expanded[x] = {} \/ tagsTable[lable][x] # Unset
                          \/ \E k \in DOMAIN gStack : gStack[k].node = x
    BY <1>0 DEF Fresh, Tag
  <2>9. \A x \in Ids : x # c => tagsTable'[lable][x] = tagsTable[lable][x]
    BY <1>5
  <2>1. \A k \in DOMAIN gStack' : tagsTable'[lable][gStack'[k].node] = Unset
    BY ONLY <1>6, <1>11, <2>0, <2>9
  <2>2. \A r \in roots : r \in Ids /\ r # c
    <3>1. roots \subseteq Ids
      BY <1>0 DEF Typed
    <3>2. 1 \in DOMAIN gStack /\ c = gStack[1].node
      BY <1>0, <1>1, StackFacts
    <3> QED BY ONLY <2>0, <3>1, <3>2
  <2>3. \A r \in roots : /\ tagsTable'[lable][r] = Unset
                         /\ \A k \in DOMAIN gStack' : gStack'[k].node # r
    <3>1. \A r \in roots : tagsTable'[lable][r] = Unset
      BY ONLY <2>0, <2>2, <2>9
    <3>2. ASSUME NEW r \in roots, NEW k \in DOMAIN gStack' PROVE gStack'[k].node # r
      <4>1. k + 1 \in DOMAIN gStack /\ gStack'[k].node = gStack[k + 1].node
        BY <1>6
      <4> QED BY <2>0, <4>1
    <3> QED BY ONLY <3>1, <3>2
  <2>4. \A x \in Ids \ {c} : (\E k \in DOMAIN gStack : gStack[k].node = x)
                               => \E k \in DOMAIN gStack' : gStack'[k].node = x
    <3> SUFFICES ASSUME NEW k \in DOMAIN gStack, gStack[k].node # c
                 PROVE  \E m \in DOMAIN gStack' : gStack'[m].node = gStack[k].node
      OBVIOUS
    <3>1. k # 1
      OBVIOUS
    <3>2. k - 1 \in DOMAIN gStack' /\ gStack'[k - 1].node = gStack[k].node
      BY <1>6, <3>1
    <3> QED BY <3>2
  <2>5. \A x \in Ids : \/ expanded[x] = {} \/ tagsTable'[lable][x] # Unset
                       \/ \E k \in DOMAIN gStack' : gStack'[k].node = x
    BY ONLY <1>4, <1>5, <2>0, <2>4, <2>9
  <2> QED BY <1>2, <2>1, <2>3, <2>5 DEF Fresh, Tag
<1>13. Frames'
  <2> SUFFICES ASSUME NEW k \in DOMAIN gStack'
               PROVE  /\ \/ gStack'[k].min = -1
                         \/ 1 <= gStack'[k].min /\ gStack'[k].min <= rankCounter + 1
                      /\ \A x \in expanded[gStack'[k].node] : Seen(k, x)'
    BY <1>2 DEF Frames
  <2>1. /\ k \in Nat \ {0} /\ k + 1 \in DOMAIN gStack /\ gStack'[k].node = gStack[k + 1].node
        /\ k + 1 > 1 /\ (k + 1) - 1 = k
        /\ gStack[k + 1] \in [node : Ids, min : Int] /\ gStack[k + 1].min \in Int
    BY <1>1, <1>6
  <2>2. /\ \/ gStack[k + 1].min = -1
           \/ 1 <= gStack[k + 1].min /\ gStack[k + 1].min <= rankCounter
        /\ \A x \in expanded[gStack'[k].node] :
             \/ Tag(x) # Unset /\ gStack[k + 1].min # -1 /\ gStack[k + 1].min <= Tag(x).minRank
             \/ x = gStack[k].node
    BY <1>0, <2>1 DEF Frames, Seen
  <2>3. \A x \in expanded[gStack'[k].node] :
          x \in Ids /\ tagsTable[lable][x].minRank \in Int
    BY <1>0, <1>11 DEF Typed
  \* A component taken that has its interval keeps it.
  <2>4. \A x \in Ids : Tag(x) # Unset => tagsTable'[lable][x] = Tag(x)
    BY <1>3, <1>5 DEF Tag
  <2>5. CASE k = 1
    <3>1. /\ gStack'[1].min = IF gStack[2].min = -1 \/ min < gStack[2].min
                              THEN min ELSE gStack[2].min
      BY <1>6, <2>1, <2>5, LoweredFrame
    <3>2. 1 <= gStack'[1].min /\ gStack'[1].min <= rankCounter + 1
      BY <1>3, <2>1, <2>2, <2>5, <3>1
    <3> SUFFICES ASSUME NEW x \in expanded[gStack'[k].node] PROVE Seen(1, x)'
      BY <2>5, <3>2
    <3>3. CASE x = c
      <4>1. gStack'[1].min <= min
        BY <2>1, <2>5, <3>1
      <4> QED BY <1>2, <1>4, <1>5, <3>2, <3>3, <4>1 DEF Seen, Tag
    <3>4. CASE x # c
      <4>1. Tag(x) # Unset /\ gStack[2].min # -1 /\ gStack[2].min <= Tag(x).minRank
        BY <2>2, <2>5, <3>4
      <4>2. Tag(x).minRank \in Int /\ tagsTable'[lable][x] = Tag(x)
        BY <2>3, <2>4, <4>1 DEF Tag
      <4>3. gStack'[1].min <= Tag(x).minRank /\ gStack'[1].min # -1
        BY <2>1, <2>5, <3>1, <3>2, <4>1, <4>2
      <4> QED BY <1>2, <4>1, <4>2, <4>3 DEF Seen, Tag
    <3> QED BY <3>3, <3>4
  <2>6. CASE k # 1
    <3>1. gStack'[k] = gStack[k + 1] /\ k > 1
      BY <1>6, <2>1, <2>6
    <3>2. \A x \in expanded[gStack'[k].node] : Seen(k, x)'
      <4> SUFFICES ASSUME NEW x \in expanded[gStack'[k].node] PROVE Seen(k, x)'
        OBVIOUS
      <4>1. CASE x = gStack[k].node
        <5>1. k \in DOMAIN gStack \ {1}
          BY <1>1, <2>1, <3>1
        <5>2. k - 1 \in DOMAIN gStack' /\ gStack'[k - 1].node = gStack[k].node
          BY <1>6, <5>1
        <5> QED BY <3>1, <4>1, <5>2 DEF Seen
      <4>2. CASE x # gStack[k].node
        <5>1. /\ Tag(x) # Unset /\ gStack'[k].min # -1 /\ gStack'[k].min <= Tag(x).minRank
              /\ tagsTable'[lable][x] = Tag(x)
          BY <2>2, <2>3, <2>4, <3>1, <4>2
        <5> QED BY <1>2, <5>1 DEF Seen, Tag
      <4> QED BY <4>1, <4>2
    <3> QED BY <1>3, <2>1, <2>2, <3>1, <3>2
  <2> QED BY <2>5, <2>6
<1> QED BY <1>7, <1>8, <1>9, <1>10, <1>12, <1>13 DEF GrailInv

-----------------------------------------------------------------------------
(* The intervals *)

\* A component without neighbours takes the counter for both ends.
LEMMA GrailInvRankLeaf == GrailInv /\ RankLeaf => GrailInv'
<1> SUFFICES ASSUME GrailInv, RankLeaf PROVE GrailInv'
  OBVIOUS
<1>1. /\ lable \in Labels /\ gStack # <<>> /\ Neighbors(Head(gStack).node) = {}
      /\ Rank(rankCounter)
  BY DEF RankLeaf
<1>2. Head(gStack) = gStack[1]
  BY <1>1, StackFacts DEF GrailInv
<1>3. rankCounter \in Int /\ 1 <= rankCounter /\ rankCounter <= rankCounter
  BY DEF GrailInv, Typed
<1> QED BY <1>1, <1>2, <1>3, GrailInvRank

\* A component that took all its neighbours has seen every one of them finish.
LEMMA GrailInvRankInner == GrailInv /\ RankInner => GrailInv'
<1> SUFFICES ASSUME GrailInv, RankInner PROVE GrailInv'
  OBVIOUS
<1> DEFINE c == Head(gStack).node
           min == Head(gStack).min
<1>1. /\ lable \in Labels /\ gStack # <<>> /\ Rank(min)
      /\ Neighbors(c) # {} /\ expanded[c] = Neighbors(c)
  BY DEF RankInner
<1>2. /\ 1 \in DOMAIN gStack /\ Head(gStack) = gStack[1] /\ min \in Int
  BY <1>1, StackFacts DEF GrailInv
<1> HIDE DEF c, min
<1>3. c = gStack[1].node /\ min = gStack[1].min
  BY <1>2 DEF c, min
<1>4. /\ min = -1 \/ (1 <= min /\ min <= rankCounter)
      /\ \A d \in Neighbors(c) : Seen(1, d)
  BY <1>1, <1>2, <1>3 DEF GrailInv, Frames
<1>5. \A d \in Neighbors(c) : Tag(d) # Unset /\ min # -1 /\ min <= Tag(d).minRank
  BY <1>3, <1>4 DEF Seen
<1>6. 1 <= min /\ min <= rankCounter
  BY <1>1, <1>4, <1>5
<1> QED BY <1>1, <1>2, <1>3, <1>5, <1>6, GrailInvRank

\* The invariant holds throughout.
LEMMA GrailInvAlways == GrailSpec => []GrailInv
<1>1. GrailInv /\ [GrailNext]_grailVars => GrailInv'
  BY GrailInvStutter, GrailInvStartRoot, GrailInvRankLeaf, GrailInvRankInner, GrailInvVisit,
     GrailInvNextLable DEF GrailNext
<1> QED BY <1>1, GrailInvInit, PTL DEF GrailSpec

\* At every moment of the walk, in every label, the interval of a component that
\* has one contains that of each of its neighbours (grail.c, buildGrailIndex).
THEOREM GrailIntervalsNest == GrailSpec => []IntervalsNest
<1>1. GrailInv => IntervalsNest
  BY DEF GrailInv
<1> QED BY <1>1, GrailInvAlways, PTL

\* A component leads to those that every set closed under the edges takes in.
TakesIn(C)    == \A e \in hEdges : e[1] \in C => e[2] \in C
LeadsTo(c, d) == \A C \in SUBSET Ids : c \in C /\ TakesIn(C) => d \in C

\* A component whose walks are done in every label is not ruled out of leading
\* where it leads.
NeverRuledOut ==
  \A c, d \in Ids :
    (\A i \in Labels : tagsTable[i][c] # Unset) /\ LeadsTo(c, d) => isReachable(c, d) # NO

\* The components whose intervals lie in one of another are closed under the edges.
LEMMA GrailInvRulesNoneOut == GrailInv => NeverRuledOut
<1>1. ASSUME Typed, Intervals, IntervalsNest PROVE NeverRuledOut
  <2> SUFFICES ASSUME NEW c \in Ids, NEW d \in Ids, \A i \in Labels : tagsTable[i][c] # Unset,
                      LeadsTo(c, d), NEW i \in Labels
               PROVE  compareLables(tagsTable[i][c], tagsTable[i][d]) # NO
    BY DEF NeverRuledOut, isReachable, YES, MAYBE, NO
  <2> DEFINE mine == tagsTable[i][c]
             within(x) == /\ mine.minRank <= tagsTable[i][x].minRank
                          /\ tagsTable[i][x].minRank <= tagsTable[i][x].rank
                          /\ tagsTable[i][x].rank <= mine.rank
             C == {x \in Ids : tagsTable[i][x] # Unset /\ within(x)}
  <2>1. \A x \in Ids : tagsTable[i][x].minRank \in Int /\ tagsTable[i][x].rank \in Int
    BY <1>1 DEF Typed
  <2>2. mine.minRank <= mine.rank
    BY <1>1 DEF Intervals
  <2>3. c \in C
    BY <2>1, <2>2
  <2>4. TakesIn(C)
    <3> SUFFICES ASSUME NEW e \in hEdges, e[1] \in C PROVE e[2] \in C
      BY DEF TakesIn
    <3>1. e[1] \in Ids /\ e[2] \in Ids
      BY <1>1 DEF Typed, Edges
    <3>2. /\ tagsTable[i][e[1]].minRank <= tagsTable[i][e[2]].minRank
          /\ tagsTable[i][e[2]].rank < tagsTable[i][e[1]].rank
          /\ 1 <= tagsTable[i][e[2]].minRank
          /\ tagsTable[i][e[2]].minRank <= tagsTable[i][e[2]].rank
      BY <1>1 DEF IntervalsNest
    <3>3. tagsTable[i][e[2]] # Unset
      BY <3>2 DEF Unset
    <3>4. within(e[2])
      BY <2>1, <3>1, <3>2
    <3> QED BY <3>1, <3>3, <3>4
  <2>5. d \in C
    BY <2>3, <2>4 DEF LeadsTo
  <2>6. ~(mine.minRank > tagsTable[i][d].minRank) /\ ~(mine.rank < tagsTable[i][d].minRank)
    BY <2>1, <2>5
  <2> QED BY <2>6 DEF compareLables, MAYBE, NO
<1> QED BY <1>1 DEF GrailInv

\* Once a component has its intervals, isReachableGrailIndex never says NO of it
\* and one that it leads to, however long the path (grail.c, compareLables): the
\* components whose intervals lie in its own are closed under the edges.
THEOREM GrailNeverRulesOut == GrailSpec => []NeverRuledOut
<1> QED BY GrailInvRulesNoneOut, GrailInvAlways, PTL

-----------------------------------------------------------------------------
(* Every component is ranked *)

\* The hypergraph is one of the components in use, with the roots that it has.
Joining ==
  /\ components \subseteq Ids
  /\ \A e \in hEdges : e[1] \in components /\ e[2] \in components
  /\ rootNodes = {c \in components : \A e \in hEdges : e[2] # c}

OnWalk(c) == \E k \in DOMAIN gStack : gStack[k].node = c

\* Only components are walked, and no root is forgotten.
Walked ==
  lable \in Labels =>
    /\ \A k \in DOMAIN gStack : gStack[k].node \in components
    /\ \A r \in rootNodes : r \in roots \/ OnWalk(r) \/ Tag(r) # Unset
    /\ \A c \in Ids : Tag(c) # Unset => c \in components

\* The ranks given so far are those up to the counter, each to one component.
Counting ==
  lable \in Labels =>
    /\ \A c, d \in Ids : Tag(c) # Unset /\ Tag(c).rank = Tag(d).rank => c = d
    /\ \A n \in 1 .. rankCounter - 1 : \E c \in components : Tag(c) # Unset /\ Tag(c).rank = n

\* Label i ranks every component.
RanksAll(i) ==
  /\ \A c \in components : tagsTable[i][c] # Unset
  /\ {tagsTable[i][c].rank : c \in components} = 1 .. Cardinality(components)

RanksDone == \A i \in Labels : i < lable => RanksAll(i)

RankInv == Joining /\ Walked /\ Counting /\ RanksDone

\* A step that changes no interval and no counter, and forgets no root.
LEMMA RankInvKept ==
  ASSUME RankInv, UNCHANGED <<hyperGraph, lable, rankCounter, tagsTable>>,
         \A k \in DOMAIN gStack' : gStack'[k].node \in components,
         \A r \in rootNodes : r \in roots \/ OnWalk(r) => r \in roots' \/ OnWalk(r)'
  PROVE  RankInv'
<1>1. UNCHANGED <<components, hEdges, rootNodes, lable, rankCounter, tagsTable>>
  BY DEF hyperGraph
<1>2. Joining' /\ RanksDone'
  BY <1>1 DEF RankInv, Joining, RanksDone, RanksAll
<1>3. Counting'
  BY <1>1 DEF RankInv, Counting, Tag
<1>4. Walked'
  BY <1>1 DEF RankInv, Walked, Tag
<1> QED BY <1>2, <1>3, <1>4 DEF RankInv

LEMMA RankInvStartRoot ==
  ASSUME GrailInv, RankInv, StartRoot
  PROVE  RankInv'
<1>0. Typed /\ Fresh /\ Walked /\ Joining
  BY DEF GrailInv, RankInv
<1>1. PICK r \in roots :
        /\ lable \in Labels /\ gStack = <<>>
        /\ roots' = roots \ {r}
        /\ gStack' = <<Frame(r, rankCounter)>>
        /\ tagsTable' = [tagsTable EXCEPT ![lable][r].minRank = -1]
        /\ UNCHANGED <<hyperGraph, lable, rankCounter, expanded>>
  BY DEF StartRoot
<1>2. r \in Ids /\ tagsTable[lable][r] = Unset /\ r \in components
  BY <1>0, <1>1 DEF Typed, Fresh, Tag, Joining
<1>3. tagsTable' = tagsTable
  BY <1>0, <1>1, <1>2 DEF Typed, Unset
<1>4. DOMAIN gStack' = {1} /\ gStack'[1].node = r
  BY <1>1 DEF Frame
<1>5. ~(\E x : OnWalk(x)) /\ OnWalk(r)'
  BY <1>1, <1>4 DEF OnWalk
<1> QED BY <1>1, <1>2, <1>3, <1>4, <1>5, RankInvKept

LEMMA RankInvVisit ==
  ASSUME GrailInv, RankInv, Visit
  PROVE  RankInv'
<1>0. Typed /\ Walked /\ Joining
  BY DEF GrailInv, RankInv
<1>1. PICK d \in Neighbors(Head(gStack).node) : Look(Head(gStack).node, d)
  BY DEF Visit
<1>2. /\ lable \in Labels /\ gStack # <<>>
      /\ UNCHANGED <<hyperGraph, lable, roots, rankCounter, tagsTable>>
  BY DEF Visit
<1>3. /\ Len(gStack) \in Nat \ {0} /\ DOMAIN gStack = 1 .. Len(gStack)
      /\ 1 \in DOMAIN gStack /\ Head(gStack) = gStack[1]
      /\ \A k \in DOMAIN gStack : gStack[k] \in [node : Ids, min : Int]
  BY <1>0, <1>2, StackFacts
<1>4. d \in components /\ d \in Ids
  <2>1. <<Head(gStack).node, d>> \in hEdges /\ d \in Ids
    BY <1>1 DEF Neighbors
  <2> QED BY <1>0, <2>1 DEF Joining
<1>5. /\ \A k \in DOMAIN gStack' : \/ gStack'[k].node = d
                                  \/ \E m \in DOMAIN gStack : gStack'[k].node = gStack[m].node
      /\ \A m \in DOMAIN gStack : \E k \in DOMAIN gStack' : gStack'[k].node = gStack[m].node
  <2>1. CASE Tag(d).minRank = -1
    <3> DEFINE frames == [node : Ids, min : Int]
               top == <<[node |-> d, min |-> -1]>>
    <3>1. top \in Seq(frames) /\ Len(top) = 1 /\ top[1] = [node |-> d, min |-> -1]
      BY <1>4
    <3>2. gStack \in Seq(frames)
      BY <1>0 DEF Typed
    <3>3. gStack' = top \o gStack
      BY <1>1, <2>1 DEF Frame, Look
    <3>9. top[1].node = d
      BY <3>1
    <3> HIDE DEF top, frames
    <3>4. /\ gStack' \in Seq(frames)
          /\ Len(gStack') = 1 + Len(gStack)
          /\ \A k \in 1 .. 1 + Len(gStack) :
               gStack'[k] = IF k <= 1 THEN top[k] ELSE gStack[k - 1]
      <4>1. /\ top \o gStack \in Seq(frames)
            /\ Len(top \o gStack) = Len(top) + Len(gStack)
            /\ \A k \in 1 .. Len(top) + Len(gStack) :
                 (top \o gStack)[k] = IF k <= Len(top) THEN top[k] ELSE gStack[k - Len(top)]
        BY ONLY <3>1, <3>2, ConcatProperties
      <4>2. Len(top) = 1
        BY ONLY <3>1
      <4> QED BY ONLY <3>3, <4>1, <4>2
    <3>5. DOMAIN gStack' = 1 .. 1 + Len(gStack)
      BY ONLY <3>4, LenProperties
    <3>6. \A k \in DOMAIN gStack' : \/ k = 1
                                    \/ k - 1 \in DOMAIN gStack /\ gStack'[k] = gStack[k - 1]
      <4> SUFFICES ASSUME NEW k \in DOMAIN gStack', k # 1
                   PROVE  k - 1 \in DOMAIN gStack /\ gStack'[k] = gStack[k - 1]
        OBVIOUS
      <4>1. k \in 1 .. 1 + Len(gStack) /\ k - 1 \in 1 .. Len(gStack) /\ ~(k <= 1)
        BY ONLY <1>3, <3>5, k \in DOMAIN gStack', k # 1
      <4> QED BY ONLY <1>3, <3>4, <4>1
    <3>7. \A m \in DOMAIN gStack : m + 1 \in DOMAIN gStack' /\ gStack'[m + 1] = gStack[m]
      <4> SUFFICES ASSUME NEW m \in DOMAIN gStack
                   PROVE  m + 1 \in DOMAIN gStack' /\ gStack'[m + 1] = gStack[m]
        OBVIOUS
      <4>1. m + 1 \in 1 .. 1 + Len(gStack) /\ ~(m + 1 <= 1) /\ (m + 1) - 1 = m
        BY ONLY <1>3, m \in DOMAIN gStack
      <4> QED BY <3>4, <3>5, <4>1
    <3>8. gStack'[1].node = d
      <4>1. gStack'[1] = top[1]
        BY ONLY <1>3, <3>4
      <4> QED BY <3>9, <4>1
    <3> QED BY ONLY <3>6, <3>7, <3>8
  <2>2. CASE Tag(d).minRank # -1
    <3>1. gStack' = [gStack EXCEPT ![1] = Lowered(gStack[1], Tag(d).minRank)]
      BY <1>1, <2>2 DEF Look
    <3>2. DOMAIN gStack' = DOMAIN gStack
      BY <3>1
    <3>3. Tag(d).minRank \in Int
      BY <1>0, <1>2, <1>4 DEF Typed, Tag
    <3>4. Lowered(gStack[1], Tag(d).minRank).node = gStack[1].node
      BY <1>3, <3>3, LoweredFrame
    <3>5. \A k \in DOMAIN gStack : gStack'[k].node = gStack[k].node
      BY <1>3, <3>1, <3>4
    <3> QED BY <3>2, <3>5
  <2> QED BY <2>1, <2>2
<1>6. \A k \in DOMAIN gStack' : gStack'[k].node \in components
  BY <1>0, <1>2, <1>4, <1>5 DEF Walked
<1>7. \A x : OnWalk(x) => OnWalk(x)'
  BY <1>5 DEF OnWalk
<1> QED BY <1>2, <1>6, <1>7, RankInvKept

\* The component on top of the stack gets the next rank.
LEMMA RankInvRank ==
  ASSUME GrailInv, RankInv, lable \in Labels, gStack # <<>>,
         NEW c, c = gStack[1].node, NEW min \in Int, Rank(min)
  PROVE  RankInv'
<1> DEFINE tag == [minRank |-> min, rank |-> rankCounter]
<1>0. Typed /\ Intervals /\ Fresh /\ Walked /\ Joining /\ Counting /\ RanksDone
  BY DEF GrailInv, RankInv
<1>1. /\ Len(gStack) \in Nat \ {0} /\ DOMAIN gStack = 1 .. Len(gStack)
      /\ 1 \in DOMAIN gStack /\ Head(gStack) = gStack[1]
      /\ \A k \in DOMAIN gStack : gStack[k].node \in Ids
  BY <1>0, StackFacts
<1>2. /\ tagsTable' = [tagsTable EXCEPT ![lable][c] = tag]
      /\ gStack' = Handed(min) /\ rankCounter' = rankCounter + 1
      /\ UNCHANGED <<components, hEdges, rootNodes, lable, roots, expanded>>
  BY <1>1 DEF Rank, hyperGraph
<1>3. /\ c \in Ids /\ Tag(c) = Unset /\ c \in components
      /\ rankCounter \in Nat \ {0}
  BY <1>0, <1>1 DEF Fresh, Typed, Walked
<1>4. tag # Unset /\ tag.rank = rankCounter
  BY <1>3 DEF Unset
<1> HIDE DEF tag
<1>5. /\ Tag(c)' = tag
      /\ \A x \in Ids : x # c => Tag(x)' = Tag(x)
      /\ \A i \in Labels : i # lable => tagsTable'[i] = tagsTable[i]
  <2>1. tagsTable \in [Labels -> [Ids -> [minRank : Int, rank : Int]]]
    BY <1>0 DEF Typed
  <2>2. /\ tagsTable'[lable][c] = tag
        /\ \A x \in Ids : x # c => tagsTable'[lable][x] = tagsTable[lable][x]
        /\ \A i \in Labels : i # lable => tagsTable'[i] = tagsTable[i]
    BY <1>2, <1>3, <2>1
  <2> QED BY <1>2, <2>2 DEF Tag
<1>6. /\ \A k \in DOMAIN gStack' : /\ k + 1 \in DOMAIN gStack
                                   /\ gStack'[k].node = gStack[k + 1].node
      /\ \A k \in DOMAIN gStack \ {1} : k - 1 \in DOMAIN gStack' /\ k = (k - 1) + 1
  BY <1>0, <1>2, HandedStack
<1>7. Joining' /\ RanksDone'
  <2>1. \A i \in Labels : i < lable => i # lable
    BY LableAssumption DEF Labels
  <2>2. \A i \in Labels : i < lable => tagsTable'[i] = tagsTable[i]
    BY <1>5, <2>1
  <2> QED BY <1>0, <1>2, <2>2 DEF Joining, RanksDone, RanksAll
<1>8. Walked'
  <2>1. \A k \in DOMAIN gStack' : gStack'[k].node \in components
    BY <1>0, <1>6 DEF Walked
  <2>2. \A x \in Ids : OnWalk(x) => x = c \/ OnWalk(x)'
    <3> SUFFICES ASSUME NEW k \in DOMAIN gStack, gStack[k].node # c
                 PROVE  \E m \in DOMAIN gStack' : gStack'[m].node = gStack[k].node
      BY DEF OnWalk
    <3>1. k # 1
      OBVIOUS
    <3>2. k - 1 \in DOMAIN gStack' /\ gStack'[k - 1].node = gStack[k].node
      BY <1>6, <3>1
    <3> QED BY <3>2
  <2>3. rootNodes \subseteq Ids
    BY <1>0 DEF Typed
  <2>4. \A r \in rootNodes : r \in roots \/ OnWalk(r)' \/ Tag(r)' # Unset
    BY <1>0, <1>4, <1>5, <2>2, <2>3 DEF Walked
  <2>5. \A x \in Ids : Tag(x)' # Unset => x \in components
    BY <1>0, <1>3, <1>5 DEF Walked
  <2> QED BY <1>2, <2>1, <2>4, <2>5 DEF Walked
<1>9. \A x \in Ids : x # c => Tag(x).rank # rankCounter
  <2>1. \A x \in Ids : Tag(x).rank \in Int /\ Tag(x).rank < rankCounter
    <3>1. \A x \in Ids : tagsTable[lable][x].rank \in Int
      BY <1>0 DEF Typed
    <3>2. \A x \in Ids : Tag(x).rank < rankCounter
      BY <1>0 DEF Intervals
    <3> QED BY <3>1, <3>2 DEF Tag
  <2> QED BY <1>3, <2>1
<1>10. Counting'
  <2>1. ASSUME NEW x \in Ids, NEW y \in Ids, Tag(x)' # Unset, Tag(x)'.rank = Tag(y)'.rank
        PROVE  x = y
    <3>1. CASE x = c
      <4>1. Tag(y)'.rank = rankCounter
        BY <1>4, <1>5, <2>1, <3>1
      <4> QED BY <1>5, <1>9, <3>1, <4>1
    <3>3. CASE y = c
      <4>1. Tag(x)'.rank = rankCounter
        BY <1>4, <1>5, <2>1, <3>3
      <4> QED BY <1>5, <1>9, <3>3, <4>1
    <3>2. CASE x # c /\ y # c
      BY <1>0, <1>5, <2>1, <3>2 DEF Counting
    <3> QED BY <3>1, <3>2, <3>3
  <2>2. ASSUME NEW n \in 1 .. rankCounter
        PROVE  \E x \in components : Tag(x)' # Unset /\ Tag(x)'.rank = n
    <3>1. CASE n = rankCounter
      BY <1>3, <1>4, <1>5, <3>1
    <3>2. CASE n # rankCounter
      <4>1. n \in 1 .. rankCounter - 1
        BY <1>3, <3>2
      <4>2. PICK x \in components : Tag(x) # Unset /\ Tag(x).rank = n
        BY <1>0, <4>1 DEF Counting
      <4>3. x # c /\ x \in Ids
        BY <1>0, <1>3, <4>2 DEF Joining
      <4> QED BY <1>5, <4>2, <4>3
    <3> QED BY <3>1, <3>2
  <2>3. rankCounter' - 1 = rankCounter
    BY <1>2, <1>3
  <2> QED BY <1>2, <2>1, <2>2, <2>3 DEF Counting
<1> QED BY <1>7, <1>8, <1>10 DEF RankInv

\* When no root is left every component has its interval: the greatest that had
\* none would be no root, and intervals nest in that of the one that leads to it.
LEMMA AllWalked ==
  ASSUME GrailInv, RankInv, lable \in Labels, gStack = <<>>, roots = {},
         NEW top \in Nat, \A c \in components : c <= top
  PROVE  \A c \in components : Tag(c) # Unset
<1>0. Typed /\ IntervalsNest /\ Joining /\ Walked
  BY DEF GrailInv, RankInv
<1> DEFINE T == {n \in Nat : \E c \in components : Tag(c) = Unset /\ n = top - c}
<1> SUFFICES ASSUME NEW c \in components, Tag(c) = Unset PROVE FALSE
  OBVIOUS
<1>1. \A x \in components : x \in Ids /\ x \in Nat /\ x <= top
  BY <1>0, IdsAssumption DEF Joining
<1>2. top - c \in T
  BY <1>1
<1>3. PICK n \in T : \A m \in T : n <= m
  <2> HIDE DEF T
  <2> QED BY <1>2, LeastNat, T \in SUBSET Nat DEF T
<1>4. PICK g \in components : Tag(g) = Unset /\ n = top - g
  BY <1>3
<1>5. g \notin rootNodes
  BY <1>0, <1>4 DEF Walked, OnWalk
<1>6. PICK e \in hEdges : e[2] = g
  BY <1>0, <1>5 DEF Joining
<1>7. e[1] \in components /\ g < e[1]
  BY <1>0, <1>6 DEF Joining, Typed, Edges
<1>8. Tag(e[1]) # Unset
  <2> SUFFICES ASSUME Tag(e[1]) = Unset PROVE FALSE
    OBVIOUS
  <2>1. e[1] \in Nat /\ e[1] <= top /\ g \in Nat
    BY <1>1, <1>7
  <2>2. top - e[1] \in Nat
    BY <2>1
  <2>3. top - e[1] \in T
    BY <1>7, <2>2
  <2>4. top - g <= top - e[1]
    BY <1>3, <1>4, <2>3
  <2> QED BY ONLY <1>7, <2>1, <2>4, top \in Nat
<1>9. 1 <= Tag(g).minRank
  BY <1>0, <1>6, <1>8 DEF IntervalsNest, Tag
<1> QED BY <1>4, <1>9 DEF Unset

LEMMA RankInvNextLable ==
  ASSUME GrailInv, RankInv, NextLable, NEW top \in Nat, \A c \in components : c <= top
  PROVE  RankInv'
<1>0. Typed /\ Intervals /\ Joining /\ Walked /\ Counting /\ RanksDone
  BY DEF GrailInv, RankInv
<1>1. /\ lable \in Labels /\ gStack = <<>> /\ roots = {}
      /\ lable' = lable + 1 /\ gStack' = <<>> /\ rankCounter' = 1
      /\ roots' = IF lable' \in Labels THEN rootNodes ELSE {}
      /\ UNCHANGED <<components, hEdges, rootNodes, tagsTable>>
  BY DEF NextLable, BeginLable, hyperGraph
<1>2. \A c \in components : Tag(c) # Unset
  BY <1>1, AllWalked
<1>3. IsFiniteSet(components) /\ Cardinality(components) \in Nat
  BY <1>0, IdsAssumption, FS_Subset, FS_CardinalityType DEF Joining
<1> DEFINE n == rankCounter - 1
           f == [c \in components |-> Tag(c).rank]
<1>4. n \in Nat /\ n + 1 = rankCounter
  BY <1>0 DEF Typed
<1>5. \A c \in components : f[c] \in 1 .. n
  <2> SUFFICES ASSUME NEW c \in components PROVE Tag(c).rank \in 1 .. n
    OBVIOUS
  <2>1. c \in Ids /\ Tag(c) # Unset
    BY <1>0, <1>2 DEF Joining
  <2>2. /\ 1 <= Tag(c).minRank /\ Tag(c).minRank <= Tag(c).rank /\ Tag(c).rank < rankCounter
    BY <1>0, <1>1, <2>1 DEF Intervals, Tag
  <2>3. Tag(c).minRank \in Int /\ Tag(c).rank \in Int
    BY <1>0, <1>1, <2>1 DEF Typed, Tag
  <2> QED BY <1>4, <2>2, <2>3
<1>6. \A c, d \in components : f[c] = f[d] => c = d
  BY <1>0, <1>1, <1>2 DEF Counting, Joining
<1>7. \A m \in 1 .. n : \E c \in components : f[c] = m
  BY <1>0, <1>1 DEF Counting
<1>8. f \in [components -> 1 .. n]
  BY <1>5
<1>9. {Tag(c).rank : c \in components} = 1 .. n
  <2>1. \A c \in components : f[c] = Tag(c).rank
    OBVIOUS
  <2> HIDE DEF f, n
  <2> QED BY <1>5, <1>7, <2>1
<1> HIDE DEF f, n
<1>10. f \in Bijection(components, 1 .. n)
  BY <1>6, <1>7, <1>8 DEF Bijection, Injection, Surjection, IsInjective
<1>11. Cardinality(components) = n
  <2>1. Cardinality(components) = Cardinality(1 .. n)
    BY <1>3, <1>10, FS_Bijection DEF ExistsBijection
  <2>2. Cardinality(1 .. n) = IF 1 > n THEN 0 ELSE n - 1 + 1
    BY <1>4, FS_Interval
  <2> QED BY <1>4, <2>1, <2>2
<1>12. RanksAll(lable)
  BY <1>2, <1>9, <1>11 DEF RanksAll, Tag
<1>13. Joining' /\ RanksDone'
  <2>1. \A i \in Labels : i < lable + 1 => i < lable \/ i = lable
    BY <1>1, LableAssumption DEF Labels
  <2>2. \A i \in Labels : i < lable' => RanksAll(i)
    BY <1>0, <1>1, <1>12, <2>1 DEF RanksDone
  <2> QED BY <1>0, <1>1, <2>2 DEF Joining, RanksDone, RanksAll
<1>14. lable' \in Labels => \A c \in Ids : Tag(c)' = Unset
  <2>1. lable + 1 > lable
    BY <1>1, LableAssumption DEF Labels
  <2> QED BY <1>0, <1>1, <2>1 DEF Intervals, Tag
<1>15. Walked'
  BY <1>1, <1>14 DEF Walked
<1>16. Counting'
  BY <1>1, <1>14 DEF Counting
<1> QED BY <1>13, <1>15, <1>16 DEF RankInv

\* Every step of the walks keeps it.
LEMMA RankInvStep ==
  ASSUME GrailInv, RankInv, [GrailNext]_grailVars,
         NEW top \in Nat, \A c \in components : c <= top
  PROVE  RankInv'
<1>1. CASE StartRoot
  BY <1>1, RankInvStartRoot
<1>2. CASE RankLeaf
  <2>1. rankCounter \in Int
    BY DEF GrailInv, Typed
  <2> QED BY <1>2, <2>1, RankInvRank DEF RankLeaf
<1>3. CASE RankInner
  <2>1. gStack # <<>> /\ lable \in Labels /\ Rank(Head(gStack).min)
    BY <1>3 DEF RankInner
  <2>2. Head(gStack).min \in Int
    BY <2>1, StackFacts DEF GrailInv
  <2> QED BY <2>1, <2>2, RankInvRank
<1>4. CASE Visit
  BY <1>4, RankInvVisit
<1>5. CASE NextLable
  BY <1>5, RankInvNextLable
<1>6. CASE UNCHANGED grailVars
  BY <1>6 DEF grailVars, hyperGraph, RankInv, Joining, Walked, Counting, RanksDone, RanksAll,
     OnWalk, Tag
<1> QED BY <1>1, <1>2, <1>3, <1>4, <1>5, <1>6 DEF GrailNext

-----------------------------------------------------------------------------
(* The index of a graph *)

\* The edges of the hypergraph are those of the graph that leave a component.
Condensed ==
  hEdges = {e \in {<<component_id[d[1]], component_id[d[2]]>> : d \in edges} : e[1] # e[2]}

\* Every node has a component whose id is in use.
Placed == \A u \in Nodes : component_id[u] \in 1 .. componentId - 1 /\ component_id[u] \in Ids

\* Nothing is indexed before the components are complete.
StaticInv ==
  /\ SCCInv /\ AllUsed /\ Led
  /\ lable = 0 => hEdges = {}
  /\ lable # 0 => /\ SCCDone /\ Placed /\ Condensed /\ components = 1 .. componentId - 1
                 /\ GrailInv /\ RankInv

LEMMA StaticInvInit == Init => StaticInv
<1> SUFFICES ASSUME Init PROVE StaticInv
  OBVIOUS
<1>1. SCCInit /\ lable = 0 /\ hEdges = {}
  BY DEF Init
<1>2. SCCInv
  BY <1>1, SCCInvInit
<1>3. AllUsed /\ Led
  BY <1>1, LedInit DEF SCCInit, AllUsed
<1> QED BY <1>1, <1>2, <1>3 DEF StaticInv

\* When the components are complete every node is in one of the ids in use.
LEMMA AllInIds ==
  ASSUME SCCInv, AllUsed, Led, SCCDone
  PROVE  Placed
<1> SUFFICES ASSUME NEW u \in Nodes
             PROVE  component_id[u] \in 1 .. componentId - 1 /\ component_id[u] \in Ids
  BY DEF Placed
<1>1. component_id[u] \in Nat /\ componentId \in Nat
  BY DEF SCCInv, SCCTyped
<1>2. component_id[u] # 0
  BY AllPlaced
<1>3. component_id[u] < componentId
  BY <1>2 DEF SCCInv, Settled
<1>4. component_id[u] \in 1 .. componentId - 1
  BY ONLY <1>1, <1>2, <1>3
<1> QED BY <1>4, EnoughIds, IdsOfNodes

\* The hypergraph that is made then has edges to lesser ids only.
LEMMA HyperGraphIsAcyclic ==
  ASSUME SCCInv, Placed,
         NEW tables,
         tables = {e \in {<<component_id[d[1]], component_id[d[2]]>> : d \in edges} : e[1] # e[2]}
  PROVE  tables \subseteq Edges
<1> SUFFICES ASSUME NEW d \in edges, component_id[d[1]] # component_id[d[2]]
             PROVE  <<component_id[d[1]], component_id[d[2]]>> \in Edges
  OBVIOUS
<1>1. d[1] \in Nodes /\ d[2] \in Nodes
  BY EdgeEnds DEF SCCInv
<1> DEFINE a == component_id[d[1]]
           b == component_id[d[2]]
<1>2. a \in Ids /\ b \in Ids
  BY <1>1 DEF Placed
<1>3. a # 0 /\ a \in Nat /\ b \in Nat
  BY <1>2, IdsAssumption
<1>4. b \in 1 .. a
  BY <1>3 DEF SCCInv, IdsFollowEdges
<1> HIDE DEF a, b
<1>5. b < a
  BY <1>3, <1>4 DEF a, b
<1>6. <<a, b>> \in Edges
  BY <1>2, <1>5 DEF Edges
<1> QED BY <1>6 DEF a, b

\* The walk of the first label begins on it.
LEMMA StaticInvIndex ==
  ASSUME StaticInv, createHyperGraph
  PROVE  StaticInv'
<1> DEFINE tables == {e \in {<<component_id[d[1]], component_id[d[2]]>> : d \in edges} :
                        e[1] # e[2]}
           ids    == 1 .. componentId - 1
<1>1. /\ SCCInv /\ AllUsed /\ Led /\ SCCDone /\ components' = ids
      /\ UNCHANGED sccVars /\ hEdges' = tables /\ rootNodes' = RootsOf(ids, tables)
      /\ buildGrailIndex(RootsOf(ids, tables))
  BY DEF StaticInv, createHyperGraph
<1>2. SCCInv' /\ AllUsed' /\ Led'
  BY <1>1, SCCInvStep, AllUsedStep, LedStep
<1>3. Placed /\ ids \subseteq Ids
  BY <1>1, AllInIds, EnoughIds, IdsOfNodes
<1>4. UNCHANGED <<edges, idx, path, componentId, component_id>>
  BY <1>1 DEF sccVars
<1>5. Placed' /\ SCCDone' /\ Condensed'
  BY <1>1, <1>3, <1>4 DEF Placed, SCCDone, Defined, Condensed
<1>6. tables \subseteq Edges
  BY <1>1, <1>3, HyperGraphIsAcyclic
<1>15. components' = 1 .. componentId' - 1
  BY <1>1, <1>4
<1>16. \A e \in tables : e[1] \in ids /\ e[2] \in ids
  <2> SUFFICES ASSUME NEW d \in edges
               PROVE  component_id[d[1]] \in ids /\ component_id[d[2]] \in ids
    OBVIOUS
  <2>1. d[1] \in Nodes /\ d[2] \in Nodes
    BY <1>1, EdgeEnds DEF SCCInv
  <2> QED BY <1>3, <2>1 DEF Placed
<1> HIDE DEF tables, ids
<1>17. Joining'
  BY <1>1, <1>3, <1>16 DEF Joining, RootsOf
<1>7. /\ hEdges' \subseteq Edges
      /\ rootNodes' \subseteq {c \in Ids : \A e \in hEdges' : e[2] # c}
  BY <1>1, <1>3, <1>6 DEF RootsOf
<1>8. /\ tagsTable' = [i \in Labels |-> [c \in Ids |-> Unset]]
      /\ lable' = 1 /\ roots' = rootNodes' /\ rankCounter' = 1
      /\ expanded' = [c \in Ids |-> {}] /\ gStack' = <<>>
  BY <1>1, LableAssumption DEF buildGrailIndex, BeginLable, Labels
<1> USE LableAssumption DEF Labels
<1>9. Typed'
  BY <1>7, <1>8 DEF Typed, Unset, Edges
<1>10. \A i \in Labels, c \in Ids : tagsTable'[i][c] = Unset
  BY <1>8
<1>11. Intervals'
  BY <1>8, <1>10 DEF Intervals, Tag, Unset
<1>12. IntervalsNest'
  BY <1>7, <1>10 DEF IntervalsNest, Edges
<1>13. Ordered' /\ Frames'
  BY <1>8 DEF Ordered, Frames
<1>14. Fresh'
  BY <1>7, <1>8, <1>10 DEF Fresh, Tag
<1>18. Walked'
  BY <1>8, <1>10 DEF Walked, Tag
<1>19. Counting'
  BY <1>8, <1>10 DEF Counting, Tag
<1>20. RanksDone'
  <2>1. \A i \in Labels : ~(i < lable')
    BY <1>8
  <2> QED BY <2>1 DEF RanksDone
<1>21. GrailInv' /\ RankInv'
  BY <1>9, <1>11, <1>12, <1>13, <1>14, <1>17, <1>18, <1>19, <1>20 DEF GrailInv, RankInv
<1> QED BY <1>2, <1>5, <1>8, <1>15, <1>21 DEF StaticInv

LEMMA StaticInvStep ==
  ASSUME StaticInv, [Next]_vars
  PROVE  StaticInv'
<1>1. CASE estimateStronglyConnectedComponents
  <2>1. SCCNext /\ lable = 0 /\ hEdges = {} /\ lable' = lable /\ hEdges' = hEdges
    BY <1>1 DEF estimateStronglyConnectedComponents, grailVars, hyperGraph, StaticInv
  <2>2. SCCInv' /\ AllUsed' /\ Led'
    BY <2>1, SCCInvStep, AllUsedStep, LedStep DEF StaticInv
  <2> QED BY <2>1, <2>2 DEF StaticInv
<1>2. CASE createHyperGraph
  BY <1>2, StaticInvIndex
<1>3. ASSUME [GrailNext]_grailVars, UNCHANGED sccVars,
             lable = 0 => UNCHANGED <<lable, hEdges>>, lable # 0 => lable' # 0 /\ hEdges' = hEdges
      PROVE  StaticInv'
  <2>1. SCCInv' /\ AllUsed' /\ Led'
    BY <1>3, SCCInvStep, AllUsedStep, LedStep DEF StaticInv
  <2>2. CASE lable = 0
    BY <1>3, <2>1, <2>2 DEF StaticInv
  <2>3. CASE lable # 0
    <3>1. GrailInv'
      BY <1>3, <2>3, GrailInvStutter, GrailInvStartRoot, GrailInvRankLeaf, GrailInvRankInner,
         GrailInvVisit, GrailInvNextLable DEF GrailNext, StaticInv
    <3>2. UNCHANGED <<edges, idx, path, componentId, component_id>>
      BY <1>3 DEF sccVars
    <3>3. Condensed' /\ Placed' /\ SCCDone'
      BY <1>3, <2>3, <3>2 DEF StaticInv, Condensed, Placed, SCCDone, Defined
    <3>4. GrailInv /\ RankInv /\ components = 1 .. componentId - 1 /\ componentId \in Nat
      BY <2>3 DEF StaticInv, SCCInv, SCCTyped
    <3>5. \A c \in components : c <= componentId
      BY <3>4
    <3>6. RankInv'
      BY <1>3, <3>4, <3>5, RankInvStep
    <3>7. components' = components
      BY <1>3 DEF GrailNext, StartRoot, RankLeaf, RankInner, Rank, Visit, NextLable, grailVars,
         hyperGraph
    <3> QED BY <1>3, <2>1, <2>3, <3>1, <3>2, <3>3, <3>4, <3>6, <3>7 DEF StaticInv
  <2> QED BY <2>2, <2>3
<1>4. CASE walkLabels
  <2>1. GrailNext /\ UNCHANGED sccVars
    BY <1>4 DEF walkLabels
  <2>2. lable \in Labels /\ hEdges' = hEdges /\ (lable' = lable \/ lable' = lable + 1)
    BY <2>1 DEF GrailNext, StartRoot, RankLeaf, RankInner, Rank, Visit, NextLable, BeginLable,
       hyperGraph
  <2>3. lable # 0 /\ lable' # 0
    BY <2>2, LableAssumption DEF Labels
  <2> QED BY <1>3, <2>1, <2>2, <2>3
<1>5. CASE UNCHANGED vars
  <2>1. UNCHANGED sccVars /\ UNCHANGED grailVars /\ UNCHANGED <<lable, hEdges>>
    BY <1>5 DEF vars, grailVars, hyperGraph
  <2> QED BY <1>3, <2>1
<1> QED BY <1>1, <1>2, <1>4, <1>5 DEF Next, Finished

\* The invariant holds throughout.
LEMMA StaticInvAlways == Spec => []StaticInv
BY StaticInvInit, StaticInvStep, PTL DEF Spec

-----------------------------------------------------------------------------
(* The theorems *)

\* On any graph components are closed in reverse topological order: an edge never
\* leads to a component that is still open or has a greater id
\* (stronglyConnectedComponents.c, estimateStronglyConnectedComponents).
THEOREM StaticIdsFollowEdges == Spec => []IdsFollowEdges
<1>1. StaticInv => IdsFollowEdges
  BY DEF StaticInv, SCCInv
<1> QED BY <1>1, StaticInvAlways, PTL

\* The intervals that buildGrailIndex gives the components of any graph nest at
\* every moment (graphQA.c, staticWorkLoad; grail.c, buildGrailIndex).
THEOREM StaticIntervalsNest == Spec => []IntervalsNest
<1>1. StaticInv => IntervalsNest
  BY DEF StaticInv, GrailInv, IntervalsNest
<1> QED BY <1>1, StaticInvAlways, PTL

\* The lowLink of a node on Tarjan's stack is, on any graph and at every step, the
\* index of a node on the stack that it leads to (stronglyConnectedComponents.c,
\* estimateStronglyConnectedComponents).
THEOREM StaticLowLinkOnStack == Spec => []LowLinkOnStack
<1>1. StaticInv => LowLinkOnStack
  BY DEF StaticInv, Led
<1> QED BY <1>1, StaticInvAlways, PTL

\* On any graph two nodes have the same component, as soon as one of them has one,
\* exactly when each leads to the other.
THEOREM StaticComponentsAreMutual == Spec => []ComponentsAreMutual
<1>1. StaticInv => ComponentsAreMutual
  BY ComponentsFollow DEF StaticInv
<1> QED BY <1>1, StaticInvAlways, PTL

\* Every label that is finished gives the components of any graph the ranks
\* 1, 2, ... in some order: the roots lead to all of them (grail.c,
\* buildGrailIndex; graphQA.c, staticWorkLoad).
THEOREM StaticEveryoneRanked == Spec => []EveryoneRanked
<1>1. ASSUME StaticInv PROVE EveryoneRanked
  <2>1. CASE lable = 0
    <3>1. \A i \in Labels : ~(i < lable)
      BY <2>1, LableAssumption DEF Labels
    <3> QED BY <3>1 DEF EveryoneRanked
  <2>2. CASE lable # 0
    BY <1>1, <2>2 DEF StaticInv, RankInv, RanksDone, RanksAll, EveryoneRanked
  <2> QED BY <2>1, <2>2
<1> QED BY <1>1, StaticInvAlways, PTL

\* A path of the graph is one of its components.
LEMMA LeadsBetween ==
  ASSUME SCCTyped, Condensed, NEW u \in Nodes, NEW v \in Nodes, Leads(u, v)
  PROVE  LeadsTo(component_id[u], component_id[v])
<1> SUFFICES ASSUME NEW C \in SUBSET Ids, component_id[u] \in C, TakesIn(C)
             PROVE  component_id[v] \in C
  BY DEF LeadsTo
<1> DEFINE D == {w \in Nodes : component_id[w] \in C}
<1>1. TakesAll(edges, D)
  <2> SUFFICES ASSUME NEW e \in edges, e[1] \in D PROVE e[2] \in D
    BY DEF TakesAll
  <2>1. e[2] \in Nodes
    BY EdgeEnds
  <2>2. CASE component_id[e[1]] = component_id[e[2]]
    BY <2>1, <2>2
  <2>3. CASE component_id[e[1]] # component_id[e[2]]
    <3>1. <<component_id[e[1]], component_id[e[2]]>> \in hEdges
      BY <2>3 DEF Condensed
    <3> QED BY <2>1, <3>1 DEF TakesIn
  <2> QED BY <2>2, <2>3
<1>2. u \in D
  OBVIOUS
<1>3. v \in D
  <2> HIDE DEF D
  <2> QED BY <1>1, <1>2, LeadsInside
<1> QED BY <1>3

\* Two nodes of which the first leads to the second are not ruled out once the
\* component of the first has its intervals.
PathsNotRuledOut ==
  \A u, v \in Nodes :
    /\ lable # 0 /\ Leads(u, v)
    /\ \A i \in Labels : tagsTable[i][component_id[u]] # Unset
    => isReachableGrailIndex(u, v) # NO

LEMMA RulesNoneOut == StaticInv => PathsNotRuledOut
<1> SUFFICES ASSUME StaticInv, NEW u \in Nodes, NEW v \in Nodes, lable # 0, Leads(u, v),
                    \A i \in Labels : tagsTable[i][component_id[u]] # Unset
             PROVE  isReachable(component_id[u], component_id[v]) # NO
  BY DEF PathsNotRuledOut, isReachableGrailIndex
<1>1. GrailInv /\ Condensed /\ Placed /\ SCCTyped
  BY DEF StaticInv, SCCInv
<1>2. NeverRuledOut
  BY <1>1, GrailInvRulesNoneOut
<1>3. LeadsTo(component_id[u], component_id[v])
  BY <1>1, LeadsBetween
<1>4. component_id[u] \in Ids /\ component_id[v] \in Ids
  BY <1>1 DEF Placed
<1> QED BY <1>2, <1>3, <1>4 DEF NeverRuledOut

\* On any graph isReachableGrailIndex never says NO of two nodes with a path from
\* one to the other, also while the index is being built, once the component of
\* the first has its intervals (graphQA.c; grail.c, isReachableGrailIndex).
THEOREM StaticNeverRulesOut == Spec => []PathsNotRuledOut
  BY RulesNoneOut, StaticInvAlways, PTL

\* On any graph the finished index says NO only of nodes without a path between
\* them, and YES exactly of those that lead to each other: the searches of
\* staticWorkLoad, which return -1 or leave nodes out on its word, lose no path.
THEOREM StaticNoMeansNoPath == Spec => []NoMeansNoPath
<1>1. ASSUME StaticInv PROVE NoMeansNoPath
  <2> SUFFICES ASSUME GrailDone, NEW u \in Nodes, NEW v \in Nodes
               PROVE  /\ isReachableGrailIndex(u, v) = NO => ~Leads(u, v)
                      /\ isReachableGrailIndex(u, v) = YES <=> Leads(u, v) /\ Leads(v, u)
    BY DEF NoMeansNoPath
  <2>1. lable # 0 /\ \A i \in Labels : i < lable
    BY LableAssumption DEF GrailDone, Labels
  <2>2. /\ RankInv /\ Placed /\ SCCInv /\ Led /\ components = 1 .. componentId - 1
    BY <1>1, <2>1 DEF StaticInv
  <2>3. component_id[u] \in components /\ component_id[u] # 0
    <3>1. component_id[u] \in components
      BY <2>2 DEF Placed
    <3>2. componentId \in Nat
      BY <2>2 DEF SCCInv, SCCTyped
    <3> QED BY <2>2, <3>1, <3>2
  <2>4. \A i \in Labels : tagsTable[i][component_id[u]] # Unset
    BY <2>1, <2>2, <2>3 DEF RankInv, RanksDone, RanksAll
  <2>5. isReachableGrailIndex(u, v) = NO => ~Leads(u, v)
    BY <1>1, <2>1, <2>4, RulesNoneOut DEF PathsNotRuledOut
  <2>6. isReachableGrailIndex(u, v) = YES <=> component_id[u] = component_id[v]
    BY DEF isReachableGrailIndex, isReachable, YES, NO, MAYBE
  <2>7. component_id[u] = component_id[v] <=> Leads(u, v) /\ Leads(v, u)
    BY <2>2, <2>3, ComponentsFollow DEF ComponentsAreMutual
  <2> QED BY <2>5, <2>6, <2>7
<1> QED BY <1>1, StaticInvAlways, PTL
=============================================================================
