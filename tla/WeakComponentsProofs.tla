------------------------ MODULE WeakComponentsProofs ------------------------
(***************************************************************************)
(* Theorems about LinkedQueue.tla and WeakComponents.tla.  First the       *)
(* queues: every operation of queue.c does to the linked nodes what it     *)
(* should do to the sequence they stand for.  Then the search: the queues  *)
(* stay linked, each finished component includes its own nodes, and in the *)
(* end the components are those of the graph.                              *)
(***************************************************************************)
EXTENDS WeakComponents, PathsProofs

-----------------------------------------------------------------------------
(* A queue and the sequence of its nodes, from the head to the tail *)

FirstOf(s) == IF s = <<>> THEN NULL ELSE s[1]
LastOf(s) == IF s = <<>> THEN NULL ELSE s[Len(s)]

Distinct(s) == \A i, j \in 1 .. Len(s) : s[i] = s[j] => i = j

\* The links of the i-th node of s.
LinksAt(s, i) == [next     |-> IF i = 1 THEN NULL ELSE s[i - 1],
                  previous |-> IF i = Len(s) THEN NULL ELSE s[i + 1]]

Chained(l, s) == \A i \in 1 .. Len(s) : l[s[i]] = LinksAt(s, i)

IsQueue(q, l, s) == /\ Distinct(s) /\ Chained(l, s)
                    /\ q = [head |-> FirstOf(s), tail |-> LastOf(s)]

Holds(s, n) == \E i \in 1 .. Len(s) : s[i] = n

\* s without its k-th element.
Without(s, k) == [i \in 1 .. Len(s) - 1 |-> IF i < k THEN s[i] ELSE s[i + 1]]

HeapOf(N) == [N -> [next : N \cup {NULL}, previous : N \cup {NULL}]]

-----------------------------------------------------------------------------
(* The operations of queue.c *)

\* A queue is read from the links of its own nodes only.
LEMMA QueueElsewhere ==
  ASSUME NEW q, NEW l, NEW m, NEW s, IsQueue(q, l, s),
         \A i \in 1 .. Len(s) : m[s[i]] = l[s[i]]
  PROVE  IsQueue(q, m, s)
BY DEF IsQueue, Chained

LEMMA LinksOf ==
  ASSUME NEW q, NEW l, NEW s, IsQueue(q, l, s), NEW i \in 1 .. Len(s)
  PROVE  /\ l[s[i]].next = IF i = 1 THEN NULL ELSE s[i - 1]
         /\ l[s[i]].previous = IF i = Len(s) THEN NULL ELSE s[i + 1]
<1>1. l[s[i]] = LinksAt(s, i)
  BY DEF IsQueue, Chained
<1> QED BY <1>1 DEF LinksAt

\* insertNodeAtQueue puts a node whose links are cut at the end.
LEMMA InsertsLast ==
  ASSUME NEW N, NULL \notin N, NEW l \in HeapOf(N), NEW s \in Seq(N), NEW q, IsQueue(q, l, s),
         NEW n \in N, ~Holds(s, n), l[n] = Cut
  PROVE  LET r == insertNodeAtQueue(q, l, n) IN
           /\ IsQueue(r.queue, r.links, Append(s, n))
           /\ r.links \in HeapOf(N)
           /\ \A m \in N : m # n /\ ~Holds(s, m) => r.links[m] = l[m]
<1> DEFINE r == insertNodeAtQueue(q, l, n)
           t == Append(s, n)
<1>1. /\ Len(s) \in Nat /\ \A i \in 1 .. Len(s) : s[i] \in N
      /\ Len(t) = Len(s) + 1 /\ \A i \in 1 .. Len(s) : t[i] = s[i]
      /\ t[Len(s) + 1] = n /\ t # <<>>
  OBVIOUS
<1>2. Distinct(t)
  <2> SUFFICES ASSUME NEW i \in 1 .. Len(t), NEW j \in 1 .. Len(t), t[i] = t[j] PROVE i = j
    BY DEF Distinct
  <2>1. (i \in 1 .. Len(s) \/ i = Len(s) + 1) /\ (j \in 1 .. Len(s) \/ j = Len(s) + 1)
    BY <1>1
  <2> QED BY <1>1, <2>1 DEF Holds, Distinct, IsQueue, Chained
<1>3. CASE s = <<>>
  <2>1. Len(s) = 0 /\ Len(t) = 1 /\ t[1] = n
    BY <1>1, <1>3
  <2>2. q.tail = NULL
    BY <1>3 DEF IsQueue, Chained, LastOf
  <2>3. r.queue = [head |-> n, tail |-> n] /\ r.links = l
    BY <2>2 DEF insertNodeAtQueue, After
  <2>4. FirstOf(t) = n /\ LastOf(t) = n
    BY <1>1, <2>1 DEF FirstOf, LastOf
  <2>5. \A i \in 1 .. Len(t) : l[t[i]] = LinksAt(t, i)
    BY <2>1 DEF LinksAt, Cut
  <2> QED BY <1>2, <2>3, <2>4, <2>5 DEF IsQueue, Chained
<1>4. CASE s # <<>>
  <2> DEFINE z == s[Len(s)]
  <2>1. Len(s) \in 1 .. Len(s) /\ z \in N /\ z # NULL /\ z # n
    BY <1>1, <1>4 DEF Holds
  <2>2. q.tail = z /\ q = [head |-> s[1], tail |-> z]
    BY <1>4 DEF IsQueue, Chained, FirstOf, LastOf
  <2>3. r.queue = [head |-> s[1], tail |-> n]
    BY <2>1, <2>2 DEF insertNodeAtQueue, After
  <2>4. r.links = [l EXCEPT ![z].previous = n, ![n] = [next |-> z, previous |-> NULL]]
    BY <2>1, <2>2 DEF insertNodeAtQueue, After
  <2>5. /\ r.links[n] = [next |-> z, previous |-> NULL]
        /\ r.links[z] = [next |-> l[z].next, previous |-> n]
        /\ \A m \in N : m # n /\ m # z => r.links[m] = l[m]
        /\ r.links \in HeapOf(N)
    BY <2>1, <2>4 DEF HeapOf
  <2> HIDE DEF r, t
  <2>6. FirstOf(t) = s[1] /\ LastOf(t) = n
    BY <1>1, <2>1 DEF FirstOf, LastOf
  <2>7. \A i \in 1 .. Len(t) : r.links[t[i]] = LinksAt(t, i)
    <3> SUFFICES ASSUME NEW i \in 1 .. Len(t) PROVE r.links[t[i]] = LinksAt(t, i)
      OBVIOUS
    <3>1. \A k \in 1 .. Len(s) : l[s[k]] = LinksAt(s, k) /\ (s[k] = z => k = Len(s))
      BY <2>1 DEF IsQueue, Chained, Distinct
    <3>2. CASE i = Len(s) + 1
      <4>1. t[i] = n /\ t[i - 1] = z /\ i = Len(t) /\ i # 1
        BY <1>1, <2>1, <3>2
      <4> QED BY <4>1, <2>5 DEF LinksAt
    <3>3. CASE i = Len(s)
      <4>1. t[i] = z /\ t[i + 1] = n /\ i # Len(t) /\ (i # 1 => t[i - 1] = s[i - 1])
        BY <1>1, <2>1, <3>3
      <4>2. l[z].next = IF i = 1 THEN NULL ELSE s[i - 1]
        <5>1. l[s[i]] = LinksAt(s, i) /\ s[i] = z
          BY <2>1, <3>1, <3>3
        <5> HIDE DEF z
        <5> QED BY <5>1 DEF LinksAt
      <4> QED BY <4>1, <4>2, <2>5 DEF LinksAt
    <3>4. CASE i \in 1 .. Len(s) /\ i # Len(s)
      <4>1. /\ t[i] = s[i] /\ t[i + 1] = s[i + 1] /\ i # Len(t)
            /\ (i # 1 => t[i - 1] = s[i - 1])
        BY <1>1, <3>4
      <4>2. s[i] \in N /\ s[i] # n /\ s[i] # z
        BY <1>1, <3>1, <3>4 DEF Holds
      <4>3. r.links[s[i]] = LinksAt(s, i)
        BY <4>2, <3>1, <3>4, <2>5
      <4> QED BY <4>1, <4>3, <3>4 DEF LinksAt
    <3> QED BY <1>1, <3>2, <3>3, <3>4
  <2>8. \A m \in N : m # n /\ ~Holds(s, m) => r.links[m] = l[m]
    BY <2>1, <2>5 DEF Holds
  <2>9. IsQueue(r.queue, r.links, t)
    BY <1>2, <2>3, <2>6, <2>7 DEF IsQueue, Chained
  <2> QED BY <2>5, <2>8, <2>9 DEF r, t
<1> QED BY <1>3, <1>4

\* What is left of a sequence without one of its elements.
LEMMA WithoutProps ==
  ASSUME NEW N, NEW s \in Seq(N), Distinct(s), NEW k \in 1 .. Len(s)
  PROVE  /\ Without(s, k) \in Seq(N) /\ Len(Without(s, k)) = Len(s) - 1
         /\ \A i \in 1 .. Len(s) - 1 : Without(s, k)[i] = IF i < k THEN s[i] ELSE s[i + 1]
         /\ Distinct(Without(s, k))
         /\ \A n : Holds(Without(s, k), n) <=> Holds(s, n) /\ n # s[k]
<1> DEFINE w == Without(s, k)
<1>1. Len(s) \in Nat /\ \A i \in 1 .. Len(s) : s[i] \in N
  OBVIOUS
<1>2. Len(s) - 1 \in Nat /\ \A i \in 1 .. Len(s) - 1 : (IF i < k THEN s[i] ELSE s[i + 1]) \in N
  BY <1>1
<1>3. w \in Seq(N) /\ Len(w) = Len(s) - 1
  BY <1>2 DEF Without
<1>4. \A i \in 1 .. Len(s) - 1 : w[i] = IF i < k THEN s[i] ELSE s[i + 1]
  BY DEF Without
<1> HIDE DEF w
<1>5. Distinct(w)
  BY <1>1, <1>3, <1>4 DEF Distinct
<1>6. \A n : Holds(w, n) <=> Holds(s, n) /\ n # s[k]
  <2> SUFFICES ASSUME NEW n PROVE Holds(w, n) <=> Holds(s, n) /\ n # s[k]
    OBVIOUS
  <2>1. ASSUME Holds(w, n) PROVE Holds(s, n) /\ n # s[k]
    <3>1. PICK i \in 1 .. Len(s) - 1 : w[i] = n
      BY <2>1, <1>3 DEF Holds
    <3> QED BY <3>1, <1>1, <1>4 DEF Holds, Distinct
  <2>2. ASSUME Holds(s, n), n # s[k] PROVE Holds(w, n)
    <3>1. PICK i \in 1 .. Len(s) : s[i] = n /\ i # k
      BY <2>2 DEF Holds
    <3>2. CASE i < k
      BY <3>1, <3>2, <1>1, <1>3, <1>4 DEF Holds
    <3>3. CASE i > k
      <4>1. i - 1 \in 1 .. Len(w) /\ w[i - 1] = n
        BY <3>1, <3>3, <1>1, <1>3, <1>4
      <4> QED BY <4>1 DEF Holds
    <3> QED BY <3>1, <3>2, <3>3
  <2> QED BY <2>1, <2>2
<1> QED BY <1>3, <1>4, <1>5, <1>6 DEF w

LEMMA LinksFields ==
  ASSUME NEW s, NEW i
  PROVE  /\ LinksAt(s, i).next = IF i = 1 THEN NULL ELSE s[i - 1]
         /\ LinksAt(s, i).previous = IF i = Len(s) THEN NULL ELSE s[i + 1]
         /\ LinksAt(s, i) = [next |-> LinksAt(s, i).next, previous |-> LinksAt(s, i).previous]
BY DEF LinksAt

\* The links m are those of l, but lead over the k-th node of s.
LeadsOver(l, m, s, k) ==
  \A i \in 1 .. Len(s) : i # k =>
    /\ m[s[i]].next = IF i = k + 1 THEN l[s[k]].next ELSE l[s[i]].next
    /\ m[s[i]].previous = IF i = k - 1 THEN l[s[k]].previous ELSE l[s[i]].previous

\* Links that lead over the k-th node are those of the sequence without it.
LEMMA GapCloses ==
  ASSUME NEW N, NEW l, NEW m \in HeapOf(N), NEW s \in Seq(N), NEW q, IsQueue(q, l, s),
         NEW k \in 1 .. Len(s), LeadsOver(l, m, s, k)
  PROVE  Chained(m, Without(s, k))
<1> DEFINE L == Len(s)
           w == Without(s, k)
<1>1. L \in Nat /\ \A i \in 1 .. L : s[i] \in N
  OBVIOUS
<1>2. Len(w) = L - 1 /\ \A i \in 1 .. L - 1 : w[i] = IF i < k THEN s[i] ELSE s[i + 1]
  BY WithoutProps DEF IsQueue, Chained
<1>3. \A i \in 1 .. L : /\ l[s[i]].next = IF i = 1 THEN NULL ELSE s[i - 1]
                        /\ l[s[i]].previous = IF i = L THEN NULL ELSE s[i + 1]
  BY LinksOf
<1>4. PICK nx, pv : nx = l[s[k]].next /\ pv = l[s[k]].previous
  OBVIOUS
<1>5. \A i \in 1 .. L : i # k =>
        /\ m[s[i]].next = IF i = k + 1 THEN nx ELSE l[s[i]].next
        /\ m[s[i]].previous = IF i = k - 1 THEN pv ELSE l[s[i]].previous
  BY <1>4 DEF LeadsOver
<1>6. /\ nx = IF k = 1 THEN NULL ELSE s[k - 1]
      /\ pv = IF k = L THEN NULL ELSE s[k + 1]
  BY <1>4, <1>3
<1> SUFFICES ASSUME NEW i \in 1 .. L - 1 PROVE m[w[i]] = LinksAt(w, i)
  BY <1>2 DEF Chained
<1> DEFINE j == IF i < k THEN i ELSE i + 1
<1>7. j \in 1 .. L /\ j # k /\ w[i] = s[j]
  BY <1>1, <1>2
<1>8. /\ m[s[j]].next = IF j = k + 1 THEN nx ELSE IF j = 1 THEN NULL ELSE s[j - 1]
      /\ m[s[j]].previous = IF j = k - 1 THEN pv ELSE IF j = L THEN NULL ELSE s[j + 1]
  <2> HIDE DEF j
  <2> QED BY <1>3, <1>7, <1>5
<1>9. m[s[j]] = [next |-> m[s[j]].next, previous |-> m[s[j]].previous]
  <2> HIDE DEF j
  <2> QED BY <1>1, <1>7 DEF HeapOf
<1>10. /\ LinksAt(w, i).next = IF i = 1 THEN NULL ELSE w[i - 1]
       /\ LinksAt(w, i).previous = IF i = L - 1 THEN NULL ELSE w[i + 1]
       /\ LinksAt(w, i) = [next |-> LinksAt(w, i).next, previous |-> LinksAt(w, i).previous]
  BY <1>2, LinksFields
<1>11. m[s[j]].next = LinksAt(w, i).next
  <2>1. CASE i = 1
    BY ONLY <2>1, <1>1, <1>8, <1>10, k \in 1 .. Len(s), <1>6
  <2>2. CASE i # 1
    <3>1. w[i - 1] = IF i - 1 < k THEN s[i - 1] ELSE s[i]
      BY <2>2, <1>1, <1>2
    <3>2. LinksAt(w, i).next = w[i - 1]
      BY <2>2, <1>10
    <3>3. k \in Int /\ i \in Int
      BY <1>1
    <3>4. CASE i < k
      <4>1. j = i /\ j # k + 1 /\ j # 1 /\ i - 1 < k
        BY <3>3, <3>4, <2>2
      <4> HIDE DEF j, w
      <4> QED BY ONLY <3>1, <3>2, <4>1, <1>8
    <3>5. CASE i = k
      <4>1. j = k + 1 /\ i - 1 < k /\ k # 1
        BY <3>3, <3>5, <2>2
      <4> HIDE DEF j, w
      <4> QED BY ONLY <3>1, <3>2, <3>5, <4>1, <1>8, <1>6
    <3>6. CASE i > k
      <4>1. j - 1 = i /\ j # k + 1 /\ j # 1 /\ ~(i - 1 < k)
        BY <3>3, <3>6, <2>2
      <4> HIDE DEF j, w
      <4> QED BY ONLY <3>1, <3>2, <4>1, <1>8
    <3> QED BY <3>3, <3>4, <3>5, <3>6
  <2> QED BY <2>1, <2>2
<1>12. m[s[j]].previous = LinksAt(w, i).previous
  <2>1. i # L - 1 => w[i + 1] = IF i + 1 < k THEN s[i + 1] ELSE s[i + 1 + 1]
    BY <1>1, <1>2
  <2>2. LinksAt(w, i).previous = IF i = L - 1 THEN NULL ELSE w[i + 1]
    BY <1>10
  <2>3. k \in Int /\ i \in Int /\ L \in Int /\ k <= L
    BY <1>1
  <2>4. CASE i < k - 1
    <3>1. j = i /\ j # k - 1 /\ j # L /\ i # L - 1 /\ i + 1 < k
      BY <2>3, <2>4
    <3> HIDE DEF j, w
    <3> QED BY ONLY <2>1, <2>2, <3>1, <1>8
  <2>5. CASE i = k - 1
    <3>1. j = k - 1 /\ ~(i + 1 < k) /\ i + 1 = k /\ (k = L <=> i = L - 1)
      BY <2>3, <2>5
    <3> HIDE DEF j, w
    <3> QED BY ONLY <2>1, <2>2, <3>1, <1>8, <1>6
  <2>6. CASE i > k - 1
    <3>1. j = i + 1 /\ j # k - 1 /\ ~(i + 1 < k) /\ (j = L <=> i = L - 1)
      BY <2>3, <2>6
    <3> HIDE DEF j, w
    <3> QED BY ONLY <2>1, <2>2, <3>1, <1>8
  <2> QED BY <2>3, <2>4, <2>5, <2>6
<1> HIDE DEF j
<1> QED BY ONLY <1>7, <1>9, <1>10, <1>11, <1>12

\* Unlinked closes the gap that the k-th node leaves, in each of its four cases.
LEMMA UnlinksAt ==
  ASSUME NEW N, NULL \notin N, NEW l \in HeapOf(N), NEW s \in Seq(N), NEW q, IsQueue(q, l, s),
         NEW k \in 1 .. Len(s)
  PROVE  LET u == Unlinked(q, l, s[k]) IN
           /\ IsQueue(u.queue, u.links, Without(s, k))
           /\ u.links \in HeapOf(N)
           /\ \A m \in N : ~Holds(s, m) => u.links[m] = l[m]
<1> DEFINE L == Len(s)
           w == Without(s, k)
<1>1. /\ L \in Nat /\ \A i \in 1 .. L : s[i] \in N /\ s[i] # NULL
      /\ \A i, j \in 1 .. L : s[i] = s[j] => i = j
      /\ q = [head |-> FirstOf(s), tail |-> LastOf(s)] /\ s # <<>>
  BY DEF IsQueue, Chained, Distinct
<1>2. /\ Without(s, k) \in Seq(N) /\ Len(w) = L - 1 /\ Distinct(w)
      /\ \A i \in 1 .. L - 1 : w[i] = IF i < k THEN s[i] ELSE s[i + 1]
  BY <1>1, WithoutProps DEF Distinct
<1>3. PICK n : n = s[k]
  OBVIOUS
<1>4. PICK nx, pv : nx = l[n].next /\ pv = l[n].previous
  OBVIOUS
<1>5. PICK q2, m : Unlinked(q, l, n) = [queue |-> q2, links |-> m]
  BY DEF Unlinked, After
<1>6. /\ nx = IF k = 1 THEN NULL ELSE s[k - 1]
      /\ pv = IF k = L THEN NULL ELSE s[k + 1]
  BY <1>3, <1>4, LinksOf
<1>7. q = [head |-> s[1], tail |-> s[L]]
  BY <1>1 DEF FirstOf, LastOf
<1>8. n \in N /\ (k # 1 => nx \in N /\ nx # NULL /\ Holds(s, nx))
      /\ (k # L => pv \in N /\ pv # NULL /\ Holds(s, pv))
  <2>1. n \in N
    BY <1>1, <1>3
  <2>2. ASSUME k # 1 PROVE nx \in N /\ nx # NULL /\ Holds(s, nx)
    <3>1. k - 1 \in 1 .. L /\ nx = s[k - 1]
      BY <2>2, <1>6
    <3> QED BY <3>1, <1>1 DEF Holds
  <2>3. ASSUME k # L PROVE pv \in N /\ pv # NULL /\ Holds(s, pv)
    <3>1. k + 1 \in 1 .. L /\ pv = s[k + 1]
      BY <2>3, <1>1, <1>6
    <3> QED BY <3>1, <1>1 DEF Holds
  <2> QED BY <2>1, <2>2, <2>3
<1>9. FirstOf(w) = (IF L = 1 THEN NULL ELSE IF k = 1 THEN s[2] ELSE s[1])
      /\ LastOf(w) = IF L = 1 THEN NULL ELSE IF k = L THEN s[L - 1] ELSE s[L]
  <2>1. (w = <<>>) = (L = 1)
    BY <1>1, <1>2
  <2> HIDE DEF w
  <2> QED BY <2>1, <1>1, <1>2 DEF FirstOf, LastOf
<1> HIDE DEF w
<1>10. SUFFICES /\ q2 = [head |-> FirstOf(w), tail |-> LastOf(w)]
                /\ m \in HeapOf(N)
                /\ \A x \in N : x # nx /\ x # pv => m[x] = l[x]
                /\ k # 1 => m[nx].previous = pv /\ m[nx].next = l[nx].next
                /\ k # L => m[pv].next = nx /\ m[pv].previous = l[pv].previous
  <2>1. ASSUME NEW i \in 1 .. L, i # k
        PROVE  /\ m[s[i]].next = IF i = k + 1 THEN nx ELSE l[s[i]].next
               /\ m[s[i]].previous = IF i = k - 1 THEN pv ELSE l[s[i]].previous
    <3>1. s[i] \in N /\ s[i] # NULL
      BY <1>1
    <3>2. s[i] = nx <=> k # 1 /\ i = k - 1
      <4>1. k # 1 => k - 1 \in 1 .. L /\ nx = s[k - 1]
        BY <1>6
      <4>2. k = 1 => nx = NULL
        BY <1>6
      <4> QED BY <4>1, <4>2, <3>1, <1>1
    <3>3. s[i] = pv <=> k # L /\ i = k + 1
      <4>1. k # L => k + 1 \in 1 .. L /\ pv = s[k + 1]
        BY <1>1, <1>6
      <4>2. k = L => pv = NULL
        BY <1>6
      <4> QED BY <4>1, <4>2, <3>1, <1>1
    <3>4. /\ k \in Int /\ i \in Int /\ ~(i = k - 1 /\ i = k + 1)
          /\ (i = k - 1 => k # 1) /\ (i = k + 1 => k # L)
      BY <1>1
    <3>5. CASE i = k - 1
      <4>1. s[i] = nx /\ k # 1 /\ i # k + 1
        BY <3>2, <3>4, <3>5
      <4> QED BY <4>1, <3>5, <1>10
    <3>6. CASE i = k + 1
      <4>1. s[i] = pv /\ k # L /\ i # k - 1
        BY <3>3, <3>4, <3>6
      <4> QED BY <4>1, <3>6, <1>10
    <3>7. CASE i # k - 1 /\ i # k + 1
      <4>1. s[i] # nx /\ s[i] # pv
        BY <3>2, <3>3, <3>7
      <4>2. m[s[i]] = l[s[i]]
        BY <4>1, <3>1, <1>10
      <4> QED BY <4>2, <3>7
    <3> QED BY <3>5, <3>6, <3>7
  <2>2. Chained(m, w)
    <3>1. LeadsOver(l, m, s, k)
      BY <2>1, <1>3, <1>4 DEF LeadsOver
    <3>2. m \in HeapOf(N)
      BY <1>10
    <3> QED BY <3>1, <3>2, GapCloses DEF w
  <2>3. IsQueue(q2, m, w)
    BY <2>2, <1>2, <1>10 DEF IsQueue
  <2>4. ASSUME NEW x \in N, ~Holds(s, x) PROVE m[x] = l[x]
    <3>1. x # nx \/ nx = NULL
      BY <2>4, <1>6, <1>8
    <3>2. x # pv \/ pv = NULL
      BY <2>4, <1>6, <1>8
    <3> QED BY <3>1, <3>2, <1>10
  <2>5. Unlinked(q, l, s[k]).queue = q2 /\ Unlinked(q, l, s[k]).links = m
    BY <1>3, <1>5
  <2> QED BY <2>3, <2>4, <2>5, <1>10 DEF w
<1>11. CASE k = 1 /\ k = L
  <2>1. nx = NULL /\ pv = NULL
    BY <1>6, <1>11
  <2>2. q2 = EmptyQueue /\ m = l
    BY <2>1, <1>4, <1>5 DEF Unlinked, After
  <2> QED BY <2>2, <1>9, <1>11 DEF EmptyQueue
<1>12. CASE k = 1 /\ k # L
  <2>1. nx = NULL /\ pv \in N /\ pv # NULL /\ pv = s[2]
    BY <1>6, <1>8, <1>12
  <2>2. q2 = [head |-> pv, tail |-> s[L]] /\ m = [l EXCEPT ![pv].next = NULL]
    BY <2>1, <1>4, <1>5, <1>7 DEF Unlinked, After
  <2>3. m \in HeapOf(N) /\ (\A x \in N : x # pv => m[x] = l[x])
        /\ m[pv].next = nx /\ m[pv].previous = l[pv].previous
    BY ONLY <2>1, <2>2, l \in HeapOf(N) DEF HeapOf
  <2>4. q2 = [head |-> FirstOf(w), tail |-> LastOf(w)]
    <3>1. L # 1
      BY <1>1, <1>12
    <3>2. q2 = [head |-> pv, tail |-> s[L]]
      BY <2>2
    <3> QED BY ONLY <3>1, <3>2, <2>1, <1>9, <1>12
  <2> QED BY ONLY <2>1, <2>3, <2>4, <1>12
<1>13. CASE k # 1 /\ k = L
  <2>1. pv = NULL /\ nx \in N /\ nx # NULL /\ nx = s[L - 1]
    BY <1>6, <1>8, <1>13
  <2>2. q2 = [head |-> s[1], tail |-> nx] /\ m = [l EXCEPT ![nx].previous = NULL]
    BY <2>1, <1>4, <1>5, <1>7 DEF Unlinked, After
  <2>3. m \in HeapOf(N) /\ (\A x \in N : x # nx => m[x] = l[x])
        /\ m[nx].previous = pv /\ m[nx].next = l[nx].next
    BY ONLY <2>1, <2>2, l \in HeapOf(N) DEF HeapOf
  <2>4. q2 = [head |-> FirstOf(w), tail |-> LastOf(w)]
    <3>1. L # 1
      BY <1>1, <1>13
    <3>2. q2 = [head |-> s[1], tail |-> nx]
      BY <2>2
    <3> QED BY ONLY <3>1, <3>2, <2>1, <1>9, <1>13
  <2> QED BY ONLY <2>1, <2>3, <2>4, <1>13
<1>14. CASE k # 1 /\ k # L
  <2>1. nx \in N /\ nx # NULL /\ pv \in N /\ pv # NULL /\ nx # pv
    <3>1. k - 1 \in 1 .. L /\ k + 1 \in 1 .. L /\ k - 1 # k + 1
      BY <1>1, <1>14
    <3> QED BY <3>1, <1>1, <1>6, <1>8, <1>14
  <2>2. q2 = q /\ m = [l EXCEPT ![nx].previous = pv, ![pv].next = nx]
    BY <2>1, <1>4, <1>5 DEF Unlinked, After
  <2>3. m \in HeapOf(N) /\ (\A x \in N : x # nx /\ x # pv => m[x] = l[x])
        /\ m[nx].previous = pv /\ m[nx].next = l[nx].next
        /\ m[pv].next = nx /\ m[pv].previous = l[pv].previous
    BY ONLY <2>1, <2>2, l \in HeapOf(N) DEF HeapOf
  <2>4. q2 = [head |-> FirstOf(w), tail |-> LastOf(w)]
    <3>1. L # 1
      BY <1>1, <1>14
    <3>2. q2 = q
      BY <2>2
    <3> QED BY ONLY <3>1, <3>2, <1>7, <1>9, <1>14
  <2> QED BY ONLY <2>3, <2>4
<1> QED BY <1>11, <1>12, <1>13, <1>14

\* deleteNodeFromQueue takes the k-th node out and cuts its links.
LEMMA DeletesAt ==
  ASSUME NEW N, NULL \notin N, NEW l \in HeapOf(N), NEW s \in Seq(N), NEW q, IsQueue(q, l, s),
         NEW k \in 1 .. Len(s)
  PROVE  LET r == deleteNodeFromQueue(q, l, s[k]) IN
           /\ IsQueue(r.queue, r.links, Without(s, k))
           /\ r.links \in HeapOf(N) /\ r.links[s[k]] = Cut
           /\ \A m \in N : ~Holds(s, m) => r.links[m] = l[m]
<1> DEFINE u == Unlinked(q, l, s[k])
           r == deleteNodeFromQueue(q, l, s[k])
<1>1. /\ IsQueue(u.queue, u.links, Without(s, k)) /\ u.links \in HeapOf(N)
      /\ \A m \in N : ~Holds(s, m) => u.links[m] = l[m]
  BY UnlinksAt
<1>2. r.queue = u.queue /\ r.links = [u.links EXCEPT ![s[k]] = Cut]
  BY DEF deleteNodeFromQueue, After
<1>3. s[k] \in N /\ Distinct(s) /\ Holds(s, s[k])
  BY DEF IsQueue, Chained, Holds
<1> HIDE DEF u, r
<1>4. /\ r.links \in HeapOf(N) /\ r.links[s[k]] = Cut
      /\ \A m \in N : m # s[k] => r.links[m] = u.links[m]
  BY <1>1, <1>2, <1>3 DEF HeapOf, Cut
<1>5. Without(s, k) \in Seq(N) /\ \A n : Holds(Without(s, k), n) => n # s[k]
  BY <1>3, WithoutProps
<1>6. \A i \in 1 .. Len(Without(s, k)) : r.links[Without(s, k)[i]] = u.links[Without(s, k)[i]]
  BY <1>4, <1>5 DEF Holds
<1>7. IsQueue(r.queue, r.links, Without(s, k))
  BY <1>1, <1>2, <1>6, QueueElsewhere
<1> QED BY <1>1, <1>3, <1>4, <1>7 DEF r

\* takeNode takes the first node out.
LEMMA TakesFirst ==
  ASSUME NEW N, NULL \notin N, NEW l \in HeapOf(N), NEW s \in Seq(N), NEW q, IsQueue(q, l, s),
         s # <<>>
  PROVE  LET r == takeNode(q, l) IN
           /\ IsQueue(r.queue, r.links, Without(s, 1))
           /\ r.links \in HeapOf(N)
           /\ \A m \in N : ~Holds(s, m) => r.links[m] = l[m]
<1>1. 1 \in 1 .. Len(s) /\ q.head = s[1]
  BY DEF IsQueue, Chained, FirstOf
<1>2. l[s[1]].next = NULL
  <2>1. l[s[1]] = LinksAt(s, 1)
    BY <1>1 DEF IsQueue, Chained
  <2> QED BY <2>1 DEF LinksAt
<1>3. takeNode(q, l) = Unlinked(q, l, s[1])
  BY <1>1, <1>2 DEF takeNode, Unlinked
<1> QED BY <1>1, <1>3, UnlinksAt

-----------------------------------------------------------------------------
(* Reading a queue *)

\* A sequence of different members of a finite set is no longer than the set.
LEMMA DistinctLength ==
  ASSUME NEW N, IsFiniteSet(N), NEW s \in Seq(N), Distinct(s)
  PROVE  Len(s) <= Cardinality(N)
<1>1. Len(s) \in Nat /\ s \in [1 .. Len(s) -> N]
  OBVIOUS
<1>2. s \in Injection(1 .. Len(s), N)
  BY <1>1 DEF Injection, IsInjective, Distinct
<1>3. Cardinality(1 .. Len(s)) <= Cardinality(N)
  BY <1>2, FS_Injection
<1>4. Cardinality(1 .. Len(s)) = Len(s)
  BY <1>1, FS_Interval
<1> QED BY <1>3, <1>4

\* Walk reads the nodes of a sequence that leads on in its direction.
LEMMA WalkReads ==
  ASSUME NEW N, NULL \notin N, IsFiniteSet(N), NEW l, DOMAIN l = N, NEW direction,
         NEW s \in Seq(N), Distinct(s),
         \A i \in 1 .. Len(s) : l[s[i]][direction] = IF i = Len(s) THEN NULL ELSE s[i + 1]
  PROVE  Walk(l, FirstOf(s), direction) = s
<1> DEFINE L == Len(s)
           M == Cardinality(N) + 1
           At(f, k) == IF k = 0 THEN FirstOf(s)
                       ELSE IF f[k - 1] = NULL THEN NULL ELSE l[f[k - 1]][direction]
           Rec(f) == f = [k \in 0 .. M |-> At(f, k)]
           a == CHOOSE f : Rec(f)
           g == [k \in 0 .. M |-> IF k < L THEN s[k + 1] ELSE NULL]
<1>1. L \in Nat /\ M \in Nat /\ L < M /\ \A i \in 1 .. L : s[i] \in N /\ s[i] # NULL
  <2>1. Cardinality(N) \in Nat /\ L <= Cardinality(N)
    BY DistinctLength, FS_CardinalityType
  <2> QED BY <2>1
<1>2. FirstOf(s) = IF L = 0 THEN NULL ELSE s[1]
  BY DEF FirstOf
<1>3. Rec(g)
  <2> SUFFICES ASSUME NEW k \in 0 .. M PROVE g[k] = At(g, k)
    OBVIOUS
  <2>1. CASE k = 0
    BY <2>1, <1>1, <1>2
  <2>2. CASE k # 0
    <3>1. k - 1 \in 0 .. M /\ g[k - 1] = IF k - 1 < L THEN s[k] ELSE NULL
      BY <2>2, <1>1
    <3>2. g[k] = IF k < L THEN s[k + 1] ELSE NULL
      OBVIOUS
    <3> HIDE DEF g, M, L
    <3>3. CASE k - 1 < L
      <4>1. k \in 1 .. L /\ s[k] # NULL /\ l[s[k]][direction] = IF k = L THEN NULL ELSE s[k + 1]
        BY <2>2, <3>3, <1>1 DEF L
      <4>2. (k < L) = (k # L)
        BY <4>1, <1>1
      <4> QED BY <4>1, <4>2, <3>1, <3>2, <3>3, <2>2
    <3>4. CASE ~(k - 1 < L)
      <4>1. ~(k < L)
        BY <3>4, <1>1
      <4> QED BY <4>1, <3>1, <3>2, <3>4, <2>2
    <3> QED BY <3>3, <3>4
  <2> QED BY <2>1, <2>2
<1> HIDE DEF g, At
<1>4. Rec(a)
  BY <1>3
<1>5. \A k \in 0 .. M : a[k] = At(a, k)
  BY <1>4
<1>6. DOMAIN a = 0 .. M
  BY <1>4
<1> HIDE DEF a
<1>7. \A k \in 0 .. M : g[k] = At(g, k)
  BY <1>3
<1>8. \A k \in 0 .. M : a[k] = g[k]
  <2> DEFINE T == {k \in Nat : k \in 0 .. M => a[k] = g[k]}
  <2>1. 0 \in T
    BY <1>5, <1>7 DEF At
  <2>2. \A k \in T : k + 1 \in T
    <3> SUFFICES ASSUME NEW k \in T, k + 1 \in 0 .. M PROVE a[k + 1] = g[k + 1]
      OBVIOUS
    <3>1. k \in 0 .. M /\ a[k] = g[k] /\ (k + 1) - 1 = k /\ k + 1 # 0
      BY <1>1
    <3> QED BY <3>1, <1>5, <1>7 DEF At
  <2> HIDE DEF T
  <2>3. T \in SUBSET Nat
    BY DEF T
  <2>4. T = Nat
    BY <2>1, <2>2, <2>3, SetInduction
  <2> QED BY <2>4, <1>1 DEF T
<1>9. \A k \in 0 .. M : a[k] # NULL <=> k < L
  BY <1>1, <1>8 DEF g
<1>10. Cardinality({k \in DOMAIN a : a[k] # NULL}) = L
  <2>1. {k \in DOMAIN a : a[k] # NULL} = 0 .. L - 1
    BY <1>1, <1>6, <1>9
  <2>2. 0 \in Int /\ L - 1 \in Int /\ ~(0 > L - 1 /\ L # 0) /\ (L - 1) - 0 + 1 = L
    BY <1>1
  <2>3. Cardinality(0 .. L - 1) = IF 0 > L - 1 THEN 0 ELSE (L - 1) - 0 + 1
    BY <2>2, FS_Interval
  <2> QED BY ONLY <2>1, <2>2, <2>3, <1>1
<1>11. [k \in 1 .. L |-> a[k - 1]] = s
  <2>1. \A k \in 1 .. L : a[k - 1] = s[k]
    BY <1>1, <1>8 DEF g
  <2> QED BY <2>1
<1>12. Walk(l, FirstOf(s), direction) = [k \in 1 .. L |-> a[k - 1]]
  <2>1. Walk(l, FirstOf(s), direction)
          = [k \in 1 .. Cardinality({k \in DOMAIN a : a[k] # NULL}) |-> a[k - 1]]
    BY DEF Walk, a, At
  <2> QED BY <2>1, <1>10
<1> QED BY <1>11, <1>12

\* A queue reads the same from either end, once forwards and once backwards.
LEMMA QueueReads ==
  ASSUME NEW N, NULL \notin N, IsFiniteSet(N), NEW l \in HeapOf(N), NEW q, NEW s \in Seq(N),
         IsQueue(q, l, s)
  PROVE  /\ Walk(l, q.head, "previous") = s
         /\ Walk(l, q.tail, "next") = Reverse(s)
<1> DEFINE L == Len(s)
           t == Reverse(s)
<1>1. DOMAIN l = N /\ L \in Nat /\ \A i \in 1 .. L : s[i] \in N
  BY DEF HeapOf
<1>2. Distinct(s) /\ q.head = FirstOf(s) /\ q.tail = LastOf(s)
  BY DEF IsQueue, Chained
<1>3. \A i \in 1 .. L : /\ l[s[i]].next = IF i = 1 THEN NULL ELSE s[i - 1]
                        /\ l[s[i]].previous = IF i = L THEN NULL ELSE s[i + 1]
  BY LinksOf
<1>4. Walk(l, q.head, "previous") = s
  BY <1>1, <1>2, <1>3, WalkReads
<1>5. t \in Seq(N) /\ Len(t) = L /\ \A i \in 1 .. L : t[i] = s[L - i + 1]
  BY <1>1 DEF Reverse
<1> HIDE DEF t
<1>6. Distinct(t)
  <2> SUFFICES ASSUME NEW i \in 1 .. L, NEW j \in 1 .. L, t[i] = t[j] PROVE i = j
    BY <1>5 DEF Distinct
  <2>1. L - i + 1 \in 1 .. L /\ L - j + 1 \in 1 .. L /\ s[L - i + 1] = s[L - j + 1]
    BY <1>1, <1>5
  <2>2. L - i + 1 = L - j + 1
    BY <2>1, <1>2 DEF Distinct
  <2> QED BY <2>2, <1>1
<1>7. ASSUME NEW i \in 1 .. Len(t)
      PROVE  l[t[i]].next = IF i = Len(t) THEN NULL ELSE t[i + 1]
  <2> DEFINE j == L - i + 1
  <2>1. j \in 1 .. L /\ t[i] = s[j] /\ (j = 1 <=> i = Len(t))
    BY <1>1, <1>5
  <2>2. i # Len(t) => t[i + 1] = s[j - 1]
    BY <1>1, <1>5
  <2> HIDE DEF j
  <2> QED BY <2>1, <2>2, <1>3
<1>8. FirstOf(t) = LastOf(s)
  <2>1. (t = <<>>) = (s = <<>>)
    BY <1>1, <1>5
  <2> QED BY <2>1, <1>1, <1>5 DEF FirstOf, LastOf
<1>9. Walk(l, FirstOf(t), "next") = t
  BY <1>1, <1>5, <1>6, <1>7, WalkReads
<1> QED BY <1>2, <1>4, <1>8, <1>9 DEF t

-----------------------------------------------------------------------------
(* The queue that Init fills *)

InOrder == [i \in 1 .. biggestNode + 1 |-> i - 1]

\* What insertAtQueue has made of the nodes up to i.
FilledTo(i) ==
  After([head |-> 0, tail |-> i],
        [u \in Nodes |-> [next     |-> IF u = 0 \/ u > i THEN NULL ELSE u - 1,
                          previous |-> IF u >= i THEN NULL ELSE u + 1]])

LEMMA NodesProps == /\ biggestNode \in Nat /\ Nodes \in SUBSET Nat /\ NULL \notin Nodes
                    /\ IsFiniteSet(Nodes) /\ \A u : u \in Nodes <=> u \in Nat /\ u <= biggestNode
BY NodesAssumption, FS_Interval DEF Nodes, NULL

\* insertAtQueue puts node i + 1 behind the nodes up to i.
LEMMA FillsOneMore ==
  ASSUME NEW i \in Nat, i + 1 \in Nodes
  PROVE  insertAtQueue(FilledTo(i).queue, FilledTo(i).links, i + 1) = FilledTo(i + 1)
<1> DEFINE q == FilledTo(i).queue
           l == FilledTo(i).links
           m == [l EXCEPT ![i + 1] = Cut]
           r == [m EXCEPT ![i].previous = i + 1, ![i + 1] = [next |-> i, previous |-> NULL]]
           z == FilledTo(i + 1).links
<1>1. q = [head |-> 0, tail |-> i] /\ i # NULL /\ i \in Nodes /\ i # i + 1
  BY NodesProps DEF FilledTo, After, NULL
<1>2. l = [u \in Nodes |-> [next     |-> IF u = 0 \/ u > i THEN NULL ELSE u - 1,
                            previous |-> IF u >= i THEN NULL ELSE u + 1]]
  BY DEF FilledTo, After
<1>3. z = [u \in Nodes |-> [next     |-> IF u = 0 \/ u > i + 1 THEN NULL ELSE u - 1,
                            previous |-> IF u >= i + 1 THEN NULL ELSE u + 1]]
  BY DEF FilledTo, After
<1>4. insertAtQueue(q, l, i + 1) = After([head |-> 0, tail |-> i + 1], r)
  BY <1>1 DEF insertAtQueue, insertNodeAtQueue
<1>5. DOMAIN r = Nodes /\ DOMAIN z = Nodes
  BY <1>2, <1>3
<1>6. r[i + 1] = [next |-> i, previous |-> NULL]
  BY <1>1, <1>2
<1>7. r[i] = [l[i] EXCEPT !.previous = i + 1]
  BY <1>1, <1>2
<1>8. \A u \in Nodes : u # i /\ u # i + 1 => r[u] = l[u]
  BY <1>1, <1>2
<1> HIDE DEF r
<1>9. \A u \in Nodes : r[u] = z[u]
  <2> SUFFICES ASSUME NEW u \in Nodes PROVE r[u] = z[u]
    OBVIOUS
  <2>1. u \in Nat /\ biggestNode \in Nat
    BY NodesProps
  <2>2. z[u] = [next     |-> IF u = 0 \/ u > i + 1 THEN NULL ELSE u - 1,
                previous |-> IF u >= i + 1 THEN NULL ELSE u + 1]
    BY <1>3
  <2>3. l[u] = [next     |-> IF u = 0 \/ u > i THEN NULL ELSE u - 1,
                previous |-> IF u >= i THEN NULL ELSE u + 1]
    BY <1>2
  <2>4. CASE u = i + 1
    BY ONLY <2>1, <2>2, <2>4, <1>6, i \in Nat
  <2>5. CASE u = i
    <3>1. r[u] = [next |-> l[u].next, previous |-> i + 1]
      BY <2>3, <2>5, <1>7
    <3> HIDE DEF z
    <3>2. l[u].next = IF u = 0 THEN NULL ELSE u - 1
      BY ONLY <2>3, <2>5, <2>1
    <3>3. z[u] = [next |-> IF u = 0 THEN NULL ELSE u - 1, previous |-> u + 1]
      BY ONLY <2>2, <2>5, <2>1
    <3> QED BY ONLY <3>1, <3>2, <3>3, <2>5
  <2>6. CASE u # i /\ u # i + 1
    <3>1. r[u] = l[u]
      BY <2>6, <1>8
    <3>2. (u > i) = (u > i + 1) /\ (u >= i) = (u >= i + 1)
      BY <2>1, <2>6
    <3> HIDE DEF l, z
    <3> QED BY <2>2, <2>3, <3>1, <3>2
  <2> QED BY <2>4, <2>5, <2>6
<1>10. r = z
  <2> HIDE DEF z
  <2>1. r = [u \in Nodes |-> r[u]] /\ z = [u \in Nodes |-> z[u]]
    <3>1. z = [u \in Nodes |-> z[u]]
      BY <1>3
    <3>2. r = [u \in Nodes |-> r[u]]
      BY <1>2 DEF r
    <3> QED BY <3>1, <3>2
  <2> QED BY <1>9, <2>1
<1>11. FilledTo(i + 1) = After([head |-> 0, tail |-> i + 1], z)
  BY DEF FilledTo, After
<1> QED BY <1>4, <1>10, <1>11

\* Init fills queue1 with the nodes in their order.
LEMMA FilledIsQueue ==
  /\ InOrder \in Seq(Nodes) /\ Filled.links \in HeapOf(Nodes)
  /\ IsQueue(Filled.queue, Filled.links, InOrder)
<1> DEFINE At(f, i) == IF i = 0 THEN insertAtQueue(EmptyQueue, [u \in Nodes |-> Cut], 0)
                       ELSE insertAtQueue(f[i - 1].queue, f[i - 1].links, i)
           Rec(f) == f = [i \in Nodes |-> At(f, i)]
           a == CHOOSE f : Rec(f)
           g == [i \in Nodes |-> FilledTo(i)]
<1>1. 0 \in Nodes
  BY NodesProps
<1>2. At(g, 0) = FilledTo(0)
  <2>1. At(g, 0) = After([head |-> 0, tail |-> 0], [[u \in Nodes |-> Cut] EXCEPT ![0] = Cut])
    BY DEF insertAtQueue, insertNodeAtQueue, EmptyQueue
  <2>2. [[u \in Nodes |-> Cut] EXCEPT ![0] = Cut] = [u \in Nodes |-> Cut]
    OBVIOUS
  <2>3. \A u \in Nodes : Cut = [next     |-> IF u = 0 \/ u > 0 THEN NULL ELSE u - 1,
                                previous |-> IF u >= 0 THEN NULL ELSE u + 1]
    BY NodesProps DEF Cut
  <2>4. FilledTo(0) = After([head |-> 0, tail |-> 0], [u \in Nodes |-> Cut])
    BY <2>3 DEF FilledTo
  <2> QED BY <2>1, <2>2, <2>4
<1>3. Rec(g)
  <2> SUFFICES ASSUME NEW i \in Nodes PROVE FilledTo(i) = At(g, i)
    OBVIOUS
  <2>1. CASE i = 0
    BY <1>2, <2>1
  <2>2. CASE i # 0
    <3>1. i - 1 \in Nat /\ i - 1 \in Nodes /\ (i - 1) + 1 = i
      BY <2>2, NodesProps
    <3>2. g[i - 1] = FilledTo(i - 1)
      BY <3>1
    <3>3. insertAtQueue(FilledTo(i - 1).queue, FilledTo(i - 1).links, i) = FilledTo(i)
      BY <3>1, FillsOneMore
    <3> HIDE DEF g
    <3> QED BY <2>2, <3>2, <3>3
  <2> QED BY <2>1, <2>2
<1> HIDE DEF At, g
<1>4. Rec(a)
  BY <1>3
<1>5. \A i \in Nodes : a[i] = At(a, i)
  BY <1>4
<1>6. \A i \in Nodes : g[i] = At(g, i)
  BY <1>3
<1> HIDE DEF a
<1>7. \A i \in Nodes : a[i] = g[i]
  <2> DEFINE T == {i \in Nat : i \in Nodes => a[i] = g[i]}
  <2>1. 0 \in T
    BY <1>5, <1>6 DEF At
  <2>2. \A i \in T : i + 1 \in T
    <3> SUFFICES ASSUME NEW i \in T, i + 1 \in Nodes PROVE a[i + 1] = g[i + 1]
      OBVIOUS
    <3>1. i \in Nodes /\ (i + 1) - 1 = i /\ i + 1 # 0
      BY NodesProps
    <3>2. a[i] = g[i]
      BY <3>1
    <3> QED BY <3>1, <3>2, <1>5, <1>6 DEF At
  <2> HIDE DEF T
  <2>3. T \in SUBSET Nat
    BY DEF T
  <2>4. T = Nat
    BY <2>1, <2>2, <2>3, SetInduction
  <2> QED BY <2>4, NodesProps DEF T
<1>8. Filled = FilledTo(biggestNode)
  <2>1. Filled = a[biggestNode]
    BY DEF Filled, a, At
  <2>2. biggestNode \in Nodes
    BY NodesProps
  <2> QED BY <2>1, <2>2, <1>7 DEF g
<1> DEFINE l == Filled.links
<1>9. /\ Filled.queue = [head |-> 0, tail |-> biggestNode]
      /\ l = [u \in Nodes |-> [next     |-> IF u = 0 \/ u > biggestNode THEN NULL ELSE u - 1,
                               previous |-> IF u >= biggestNode THEN NULL ELSE u + 1]]
  BY <1>8 DEF FilledTo, After
<1> HIDE DEF l
<1>10. biggestNode \in Nat /\ \A i \in 1 .. biggestNode + 1 : i - 1 \in Nodes
  BY NodesProps
<1>11. InOrder \in Seq(Nodes) /\ Len(InOrder) = biggestNode + 1
       /\ \A i \in 1 .. biggestNode + 1 : InOrder[i] = i - 1
  BY <1>10 DEF InOrder
<1>12. l \in HeapOf(Nodes)
  <2>1. \A u \in Nodes : /\ (IF u = 0 \/ u > biggestNode THEN NULL ELSE u - 1) \in Nodes \cup {NULL}
                         /\ (IF u >= biggestNode THEN NULL ELSE u + 1) \in Nodes \cup {NULL}
    BY NodesProps
  <2> QED BY <2>1, <1>9 DEF HeapOf
<1>13. Distinct(InOrder)
  BY <1>10, <1>11 DEF Distinct
<1>14. FirstOf(InOrder) = 0 /\ LastOf(InOrder) = biggestNode
  BY <1>10, <1>11 DEF FirstOf, LastOf
<1>15. ASSUME NEW i \in 1 .. Len(InOrder) PROVE l[InOrder[i]] = LinksAt(InOrder, i)
  <2>1. /\ i \in 1 .. biggestNode + 1 /\ i - 1 \in Nodes /\ i - 1 \in Nat
        /\ InOrder[i] = i - 1
    BY <1>10, <1>11
  <2>2. l[i - 1] = [next |-> IF i - 1 = 0 \/ i - 1 > biggestNode THEN NULL ELSE i - 1 - 1,
                    previous |-> IF i - 1 >= biggestNode THEN NULL ELSE i - 1 + 1]
    BY <2>1, <1>9
  <2>3. (i - 1 = 0 \/ i - 1 > biggestNode) = (i = 1)
    BY <2>1, <1>10
  <2>4. (i - 1 >= biggestNode) = (i = Len(InOrder))
    BY <2>1, <1>10, <1>11
  <2>5. (i # 1 => InOrder[i - 1] = i - 1 - 1) /\ (i # Len(InOrder) => InOrder[i + 1] = i - 1 + 1)
    BY <2>1, <1>10, <1>11
  <2> QED BY ONLY <2>1, <2>2, <2>3, <2>4, <2>5 DEF LinksAt
<1> QED BY <1>9, <1>11, <1>12, <1>13, <1>14, <1>15 DEF IsQueue, Chained, l

-----------------------------------------------------------------------------
(* Weakly connected nodes *)

LEMMA LinkedTransitive ==
  ASSUME NEW N, NEW E, NEW u, NEW v, NEW w
  PROVE  /\ Linked(N, E, u, u)
         /\ Linked(N, E, u, v) => Linked(N, E, v, u)
         /\ Linked(N, E, u, v) /\ Linked(N, E, v, w) => Linked(N, E, u, w)
BY DEF Linked

LEMMA AdjacentProps ==
  ASSUME edges \subseteq Nodes \X Nodes, NEW u \in Nodes, NEW v
  PROVE  /\ v \in Adjacent(u) <=> <<u, v>> \in edges \/ <<v, u>> \in edges
         /\ v \in Adjacent(u) => v \in Nodes /\ u \in Adjacent(v) /\ Linked(Nodes, edges, u, v)
<1>1. \A e \in edges : e = <<e[1], e[2]>> /\ e[1] \in Nodes /\ e[2] \in Nodes
  OBVIOUS
<1>2. \A x, y : y \in Adjacent(x) <=> <<x, y>> \in edges \/ <<y, x>> \in edges
  BY <1>1 DEF Adjacent
<1>3. \A x, y : <<x, y>> \in edges => x \in Nodes /\ y \in Nodes /\ Linked(Nodes, edges, x, y)
  BY <1>1 DEF Linked, Closed
<1> QED BY <1>2, <1>3, LinkedTransitive

-----------------------------------------------------------------------------
(* The search: the inductive invariant *)

\* The variables keep to their types; a component is begun only after the last one is done.
Typed ==
  /\ edges \subseteq Nodes \X Nodes
  /\ links \in HeapOf(Nodes)
  /\ unread \subseteq Nodes
  /\ ccId \in Nat
  /\ ccindex \in [Nodes -> 0 .. ccId]
  /\ nodeList \in [Nodes -> Nat]
  /\ component \in Seq([Nodes -> Nat])

\* s and t are the nodes of queue1 and of queue2: all those without a component are in
\* one of them, those of queue1 in their order.
Queues(s, t) ==
  /\ s \in Seq(Nodes) /\ t \in Seq(Nodes)
  /\ IsQueue(queue1, links, s) /\ IsQueue(queue2, links, t)
  /\ \A i, j \in 1 .. Len(s) : i < j => s[i] < s[j]
  /\ \A u \in Nodes : Holds(s, u) <=> ccindex[u] = 0 /\ ~Holds(t, u)
  /\ \A u \in Nodes : Holds(t, u) => ccindex[u] \in {0, ccId}

\* r is the least node of component c, and less than those of later components and
\* those without one.
Root(c, r) ==
  /\ r \in Nodes /\ ccindex[r] = c
  /\ \A u \in Nodes : ccindex[u] = 0 \/ ccindex[u] >= c => r <= u

\* No component is under way.
Between(t) ==
  /\ Len(component) = ccId
  /\ t = <<>> /\ unread = {} /\ nodeList = Empty

\* The first node of a component waits in queue2.
Begun(t, r) ==
  /\ Len(component) + 1 = ccId
  /\ r \in Nodes /\ t = <<r>> /\ unread = {} /\ nodeList = Empty
  /\ ccindex[r] = 0
  /\ \A u \in Nodes : ccindex[u] # ccId /\ (ccindex[u] = 0 => r <= u)

\* The first node has been taken.
Working(t, r) ==
  /\ Len(component) + 1 = ccId
  /\ Root(ccId, r) /\ ~Holds(t, r)
  /\ \A u \in Nodes : Holds(t, u) => ccindex[u] = ccId
  /\ \A u \in Nodes : nodeList[u] = IF ccindex[u] # ccId THEN 0
                                    ELSE IF u = r \/ Holds(t, u) THEN 1 ELSE 2

Phase(t) == Between(t) \/ \E r \in Nodes : Begun(t, r) \/ Working(t, r)

Rooted == \A c \in 1 .. Len(component) : \E r \in Nodes : Root(c, r)

\* The neighbours of a node that has been taken bear its id, those still to be looked
\* at excepted; and these are neighbours of a node of the component under way.
Explored(t) ==
  /\ \A u \in Nodes : ccindex[u] # 0 /\ ~Holds(t, u) =>
       \A v \in Adjacent(u) : ccindex[v] = ccindex[u] \/ (v \in unread /\ ccindex[u] = ccId)
  /\ \A v \in unread : \E u \in Nodes : ccindex[u] = ccId /\ ~Holds(t, u) /\ v \in Adjacent(u)

Together ==
  \A u, v \in Nodes : ccindex[u] = ccindex[v] /\ ccindex[u] # 0 => Linked(Nodes, edges, u, v)

WeakInv(s, t) == /\ Typed /\ Queues(s, t) /\ Phase(t)
                 /\ Rooted /\ Explored(t) /\ Together /\ IncludesOwnNodes

List1 == Walk(links, queue1.head, "previous")
List2 == Walk(links, queue2.head, "previous")

Inv == WeakInv(List1, List2)

\* The invariant says of the two lists what is true of any two that the queues stand for.
ReadsBack == \A s, t : WeakInv(s, t) => Inv /\ s = List1 /\ t = List2

LEMMA ReadBack == ReadsBack
<1> SUFFICES ASSUME NEW s, NEW t, WeakInv(s, t) PROVE Inv /\ s = List1 /\ t = List2
  BY DEF ReadsBack
<1>1. s = List1 /\ t = List2
  BY NodesProps, QueueReads DEF WeakInv, Queues, Typed, List1, List2
<1> QED BY <1>1 DEF Inv

-----------------------------------------------------------------------------
(* Moving nodes between the queues *)

LEMMA HoldsProps ==
  ASSUME NEW N, NEW s \in Seq(N), NEW n \in N
  PROVE  /\ \A m : Holds(Append(s, n), m) <=> Holds(s, m) \/ m = n
         /\ \A m : ~Holds(<<>>, m)
         /\ \A m : Holds(s, m) => m \in N
<1>1. /\ Len(s) \in Nat /\ \A i \in 1 .. Len(s) : s[i] \in N
      /\ Len(Append(s, n)) = Len(s) + 1 /\ Append(s, n)[Len(s) + 1] = n
      /\ \A i \in 1 .. Len(s) : Append(s, n)[i] = s[i]
  OBVIOUS
<1>2. \A m : Holds(s, m) => m \in N
  BY <1>1 DEF Holds
<1>3. \A m : ~Holds(<<>>, m)
  BY DEF Holds
<1>4. ASSUME NEW m PROVE Holds(Append(s, n), m) <=> Holds(s, m) \/ m = n
  <2>1. ASSUME Holds(Append(s, n), m) PROVE Holds(s, m) \/ m = n
    <3>1. PICK i \in 1 .. Len(s) + 1 : Append(s, n)[i] = m
      BY <2>1, <1>1 DEF Holds
    <3>2. i \in 1 .. Len(s) \/ i = Len(s) + 1
      BY <1>1
    <3> QED BY <3>1, <3>2, <1>1 DEF Holds
  <2>2. ASSUME Holds(s, m) \/ m = n PROVE Holds(Append(s, n), m)
    <3>1. Len(s) + 1 \in 1 .. Len(s) + 1 /\ \A i \in 1 .. Len(s) : i \in 1 .. Len(s) + 1
      BY <1>1
    <3> QED BY <2>2, <3>1, <1>1 DEF Holds
  <2> QED BY <2>1, <2>2
<1> QED BY <1>2, <1>3, <1>4

LEMMA HeadOf ==
  ASSUME NEW N, NULL \notin N, NEW q, NEW l, NEW s \in Seq(N), IsQueue(q, l, s)
  PROVE  /\ q.head = NULL => s = <<>>
         /\ q.head # NULL => s # <<>> /\ 1 \in 1 .. Len(s) /\ q.head = s[1]
<1>1. q.head = FirstOf(s)
  BY DEF IsQueue, Chained
<1>2. s # <<>> => 1 \in 1 .. Len(s) /\ s[1] # NULL
  OBVIOUS
<1> QED BY <1>1, <1>2 DEF FirstOf

\* A node goes from the middle of one queue to the end of another.
LEMMA MovesOver ==
  ASSUME NEW N, NULL \notin N, NEW l \in HeapOf(N), NEW s \in Seq(N), NEW t \in Seq(N),
         NEW q, IsQueue(q, l, s), NEW p, IsQueue(p, l, t),
         \A m \in N : ~(Holds(s, m) /\ Holds(t, m)), NEW k \in 1 .. Len(s)
  PROVE  LET d == deleteNodeFromQueue(q, l, s[k])
             r == insertNodeAtQueue(p, d.links, s[k]) IN
           /\ IsQueue(d.queue, r.links, Without(s, k))
           /\ IsQueue(r.queue, r.links, Append(t, s[k]))
           /\ r.links \in HeapOf(N)
<1> DEFINE n == s[k]
           d == deleteNodeFromQueue(q, l, s[k])
           r == insertNodeAtQueue(p, d.links, n)
           w == Without(s, k)
<1>1. n \in N /\ Holds(s, n) /\ Distinct(s)
  BY DEF Holds, IsQueue, Chained
<1>2. /\ IsQueue(d.queue, d.links, w) /\ d.links \in HeapOf(N) /\ d.links[n] = Cut
      /\ \A m \in N : ~Holds(s, m) => d.links[m] = l[m]
  BY DeletesAt
<1>3. w \in Seq(N) /\ \A m : Holds(w, m) <=> Holds(s, m) /\ m # n
  BY <1>1, WithoutProps
<1> HIDE DEF n, d, w
<1>4. IsQueue(p, d.links, t)
  <2>1. \A i \in 1 .. Len(t) : t[i] \in N /\ ~Holds(s, t[i])
    BY DEF Holds
  <2> QED BY <2>1, <1>2, QueueElsewhere
<1>5. ~Holds(t, n)
  BY <1>1
<1>6. /\ IsQueue(r.queue, r.links, Append(t, n)) /\ r.links \in HeapOf(N)
      /\ \A m \in N : m # n /\ ~Holds(t, m) => r.links[m] = d.links[m]
  BY <1>1, <1>2, <1>4, <1>5, InsertsLast
<1> HIDE DEF r
<1>7. IsQueue(d.queue, r.links, w)
  <2>1. \A i \in 1 .. Len(w) : w[i] \in N /\ Holds(w, w[i])
    BY <1>3 DEF Holds
  <2>2. \A i \in 1 .. Len(w) : r.links[w[i]] = d.links[w[i]]
    BY <2>1, <1>3, <1>6
  <2> QED BY <2>2, <1>2, QueueElsewhere
<1> QED BY <1>6, <1>7 DEF n, d, r, w

\* MoveToQueue2 moves the k-th node of queue1; the others stay in their order.
LEMMA MovesNode ==
  ASSUME NEW s, NEW t, Typed, Queues(s, t), NEW k \in 1 .. Len(s), NEW n, n = s[k],
         MoveToQueue2(n)
  PROVE  /\ Without(s, k) \in Seq(Nodes) /\ Append(t, n) \in Seq(Nodes) /\ n \in Nodes
         /\ links' \in HeapOf(Nodes)
         /\ IsQueue(queue1', links', Without(s, k))
         /\ IsQueue(queue2', links', Append(t, n))
         /\ \A i, j \in 1 .. Len(Without(s, k)) : i < j => Without(s, k)[i] < Without(s, k)[j]
         /\ \A m : Holds(Without(s, k), m) <=> Holds(s, m) /\ m # n
         /\ \A m : Holds(Append(t, n), m) <=> Holds(t, m) \/ m = n
<1> DEFINE w == Without(s, k)
<1>1. /\ s \in Seq(Nodes) /\ t \in Seq(Nodes) /\ links \in HeapOf(Nodes) /\ s[k] \in Nodes
      /\ IsQueue(queue1, links, s) /\ IsQueue(queue2, links, t) /\ NULL \notin Nodes
      /\ \A m \in Nodes : ~(Holds(s, m) /\ Holds(t, m))
      /\ \A i, j \in 1 .. Len(s) : i < j => s[i] < s[j]
  BY NodesProps DEF Typed, Queues
<1>2. /\ w \in Seq(Nodes) /\ Len(w) = Len(s) - 1
      /\ \A i \in 1 .. Len(s) - 1 : w[i] = IF i < k THEN s[i] ELSE s[i + 1]
      /\ \A m : Holds(w, m) <=> Holds(s, m) /\ m # s[k]
  BY <1>1, WithoutProps DEF IsQueue, Chained
<1>3. Append(t, s[k]) \in Seq(Nodes) /\ \A m : Holds(Append(t, s[k]), m) <=> Holds(t, m) \/ m = s[k]
  BY <1>1, HoldsProps
<1>4. /\ links' \in HeapOf(Nodes) /\ IsQueue(queue1', links', w)
      /\ IsQueue(queue2', links', Append(t, s[k]))
  <2>1. LET d == deleteNodeFromQueue(queue1, links, s[k])
            r == insertNodeAtQueue(queue2, d.links, s[k]) IN
          /\ queue1' = d.queue /\ queue2' = r.queue /\ links' = r.links
          /\ IsQueue(d.queue, r.links, Without(s, k))
          /\ IsQueue(r.queue, r.links, Append(t, s[k]))
          /\ r.links \in HeapOf(Nodes)
    BY <1>1, MovesOver DEF MoveToQueue2
  <2> QED BY <2>1
<1>5. ASSUME NEW i \in 1 .. Len(w), NEW j \in 1 .. Len(w), i < j PROVE w[i] < w[j]
  <2> DEFINE f(x) == IF x < k THEN x ELSE x + 1
  <2>1. Len(s) \in Nat /\ i \in 1 .. Len(s) - 1 /\ j \in 1 .. Len(s) - 1
    BY <1>1, <1>2
  <2>2. f(i) \in 1 .. Len(s) /\ f(j) \in 1 .. Len(s) /\ f(i) < f(j)
    BY <2>1, <1>5
  <2>3. w[i] = s[f(i)] /\ w[j] = s[f(j)]
    BY <2>1, <1>2
  <2> HIDE DEF f, w
  <2> QED BY <2>2, <2>3, <1>1
<1> QED BY <1>1, <1>2, <1>3, <1>4, <1>5

-----------------------------------------------------------------------------
(* Init and the steps *)

LEMMA WeakInit == Init => WeakInv(InOrder, <<>>)
<1> SUFFICES ASSUME Init PROVE WeakInv(InOrder, <<>>)
  OBVIOUS
<1>1. /\ edges \in SUBSET Pairs /\ queue1 = Filled.queue /\ links = Filled.links
      /\ queue2 = EmptyQueue /\ unread = {} /\ ccId = 0 /\ ccindex = [u \in Nodes |-> 0]
      /\ nodeList = [u \in Nodes |-> 0] /\ component = <<>>
  BY DEF Init, Empty
<1>2. /\ InOrder \in Seq(Nodes) /\ links \in HeapOf(Nodes) /\ IsQueue(queue1, links, InOrder)
  BY <1>1, FilledIsQueue
<1>3. Typed
  BY <1>1, <1>2, PairsAssumption DEF Typed
<1>4. Queues(InOrder, <<>>)
  <2>1. Len(InOrder) = biggestNode + 1 /\ \A i \in 1 .. biggestNode + 1 : InOrder[i] = i - 1
    BY NodesProps DEF InOrder
  <2>2. IsQueue(queue2, links, <<>>)
    BY <1>1 DEF IsQueue, Chained, EmptyQueue, FirstOf, LastOf, Distinct
  <2>3. \A u : ~Holds(<<>>, u)
    BY DEF Holds
  <2>4. ASSUME NEW u \in Nodes PROVE Holds(InOrder, u)
    <3>1. u \in Nat /\ u <= biggestNode /\ biggestNode \in Nat
      BY NodesProps
    <3>2. u + 1 \in 1 .. biggestNode + 1 /\ InOrder[u + 1] = u
      BY <2>1, <3>1
    <3> QED BY <2>1, <3>2 DEF Holds
  <2>5. \A i, j \in 1 .. Len(InOrder) : i < j => InOrder[i] < InOrder[j]
    BY <2>1, NodesProps
  <2>6. <<>> \in Seq(Nodes) /\ \A u \in Nodes : ccindex[u] = 0
    BY <1>1
  <2> QED BY <1>2, <2>2, <2>3, <2>4, <2>5, <2>6 DEF Queues
<1>5. Phase(<<>>)
  BY <1>1 DEF Phase, Between, Empty
<1>6. Rooted /\ Explored(<<>>) /\ Together /\ IncludesOwnNodes
  BY <1>1 DEF Rooted, Explored, Together, IncludesOwnNodes
<1> QED BY <1>3, <1>4, <1>5, <1>6 DEF WeakInv

LEMMA StepNextComponent ==
  ASSUME NEW s, NEW t, WeakInv(s, t), NextComponent
  PROVE  WeakInv(Without(s, 1), Append(t, s[1]))'
<1> DEFINE n == s[1]
           w == Without(s, 1)
           z == Append(t, n)
<1>1. /\ Typed /\ Queues(s, t) /\ Phase(t) /\ Rooted /\ Explored(t) /\ Together
      /\ IncludesOwnNodes
  BY DEF WeakInv
<1>2. /\ Len(component) = ccId /\ queue1.head # NULL /\ ccId' = ccId + 1
      /\ MoveToQueue2(queue1.head)
      /\ UNCHANGED <<edges, unread, ccindex, nodeList, component>>
  BY DEF NextComponent
<1>3. /\ edges \subseteq Nodes \X Nodes /\ ccId \in Nat /\ ccindex \in [Nodes -> 0 .. ccId]
      /\ unread \subseteq Nodes /\ nodeList \in [Nodes -> Nat] /\ component \in Seq([Nodes -> Nat])
  BY <1>1 DEF Typed
<1>4. s # <<>> /\ 1 \in 1 .. Len(s) /\ queue1.head = n
  BY <1>1, <1>2, NodesProps, HeadOf DEF Queues
<1>5. /\ w \in Seq(Nodes) /\ z \in Seq(Nodes) /\ n \in Nodes
      /\ links' \in HeapOf(Nodes)
      /\ IsQueue(queue1', links', w) /\ IsQueue(queue2', links', z)
      /\ \A i, j \in 1 .. Len(w) : i < j => w[i] < w[j]
      /\ \A m : Holds(w, m) <=> Holds(s, m) /\ m # n
      /\ \A m : Holds(z, m) <=> Holds(t, m) \/ m = n
  <2>1. MoveToQueue2(s[1])
    BY <1>2, <1>4
  <2> QED BY <1>1, <1>4, <2>1, MovesNode
<1>6. Between(t)
  BY <1>1, <1>2, <1>3 DEF Phase, Begun, Working
<1>7. t = <<>> /\ unread = {} /\ nodeList = Empty /\ \A u : ~Holds(t, u)
  BY <1>6 DEF Between, Holds
<1>8. \A u \in Nodes : Holds(s, u) <=> ccindex[u] = 0
  BY <1>1, <1>7 DEF Queues
<1>9. ASSUME NEW u \in Nodes, ccindex[u] = 0 PROVE n <= u
  <2>1. PICK i \in 1 .. Len(s) : s[i] = u
    BY <1>8, <1>9 DEF Holds
  <2>2. i # 1 => s[1] < s[i]
    BY <1>1, <1>4 DEF Queues
  <2>3. n \in Nat /\ u \in Nat
    BY <1>5, NodesProps
  <2> QED BY <2>1, <2>2, <2>3
<1>10. ccindex[n] = 0
  BY <1>4, <1>5, <1>8 DEF Holds
<1>11. z = <<n>>
  BY <1>5, <1>7
<1> HIDE DEF n, w, z
<1>12. Typed'
  <2>1. ccindex \in [Nodes -> 0 .. ccId + 1] /\ ccId + 1 \in Nat
    BY <1>3
  <2> QED BY <1>2, <1>3, <1>5, <2>1 DEF Typed
<1>13. Queues(w, z)'
  BY <1>2, <1>5, <1>7, <1>8, <1>10 DEF Queues
<1>14. Phase(z)'
  <2>1. \A u \in Nodes : ccindex[u] # ccId + 1
    BY <1>3
  <2>2. Begun(z, n)'
    BY <1>2, <1>5, <1>7, <1>9, <1>10, <1>11, <2>1 DEF Begun, Empty
  <2> QED BY <2>2, <1>5 DEF Phase
<1>15. Rooted' /\ Together' /\ IncludesOwnNodes'
  BY <1>1, <1>2 DEF Rooted, Root, Together, IncludesOwnNodes
<1>16. Explored(z)'
  <2>1. \A u \in Nodes : \A v : v \in Adjacent(u)' <=> v \in Adjacent(u)
    BY <1>2 DEF Adjacent
  <2> QED BY <1>1, <1>2, <1>7, <1>5, <2>1 DEF Explored
<1> QED BY <1>12, <1>13, <1>14, <1>15, <1>16 DEF WeakInv, n, w, z

\* When a node without a component, or one of the component under way, gets its id, all
\* that is known of earlier components stays.
LEMMA Numbers ==
  ASSUME Typed, Rooted, Together, IncludesOwnNodes, Len(component) + 1 = ccId,
         NEW v \in Nodes, ccindex[v] \in {0, ccId},
         \A u \in Nodes : ccindex[u] = ccId => Linked(Nodes, edges, u, v),
         ccindex' = [ccindex EXCEPT ![v] = ccId],
         UNCHANGED <<edges, ccId, component>>
  PROVE  /\ Rooted' /\ Together' /\ IncludesOwnNodes'
         /\ ccindex' \in [Nodes -> 0 .. ccId]
         /\ ccindex'[v] = ccId /\ \A u \in Nodes : u # v => ccindex'[u] = ccindex[u]
         /\ \A r \in Nodes : Root(ccId, r) => Root(ccId, r)'
<1>1. /\ ccId \in Nat /\ ccId # 0 /\ ccindex \in [Nodes -> 0 .. ccId]
      /\ \A c \in 1 .. Len(component) : c \in Nat /\ c # 0 /\ c < ccId
  <2>1. Len(component) \in Nat /\ ccId \in Nat /\ ccindex \in [Nodes -> 0 .. ccId]
    BY DEF Typed
  <2> QED BY <2>1
<1>2. /\ ccindex' \in [Nodes -> 0 .. ccId] /\ ccindex'[v] = ccId
      /\ \A u \in Nodes : u # v => ccindex'[u] = ccindex[u]
  BY <1>1
<1>3. \A c \in 1 .. Len(component), u \in Nodes : ccindex'[u] = c <=> ccindex[u] = c
  BY <1>1, <1>2
<1>4. ASSUME NEW c \in Nat, c <= ccId, NEW u \in Nodes, ccindex'[u] = 0 \/ ccindex'[u] >= c
      PROVE  ccindex[u] = 0 \/ ccindex[u] >= c
  <2>1. ccindex[u] \in Nat
    BY <1>1
  <2> QED BY <1>2, <1>4, <2>1
<1>5. Rooted'
  <2> SUFFICES ASSUME NEW c \in 1 .. Len(component) PROVE \E r \in Nodes : Root(c, r)'
    BY DEF Rooted
  <2>1. PICK r \in Nodes : Root(c, r)
    BY DEF Rooted
  <2>2. c \in Nat /\ c <= ccId
    BY <1>1
  <2>3. Root(c, r)'
    BY <1>3, <1>4, <2>1, <2>2 DEF Root
  <2> QED BY <2>3
<1>6. ASSUME NEW r \in Nodes, Root(ccId, r) PROVE Root(ccId, r)'
  <2>1. ccindex'[r] = ccId
    BY <1>2, <1>6 DEF Root
  <2> QED BY <1>1, <1>4, <1>6, <2>1 DEF Root
<1>7. Together'
  <2> SUFFICES ASSUME NEW x \in Nodes, NEW y \in Nodes, ccindex'[x] = ccindex'[y],
                      ccindex'[x] # 0
               PROVE  Linked(Nodes, edges, x, y)
    BY DEF Together
  <2>1. \A u \in Nodes : ccindex'[u] = ccId => Linked(Nodes, edges, u, v)
    BY <1>2, LinkedTransitive
  <2>2. CASE ccindex'[x] = ccId
    BY <2>1, <2>2, LinkedTransitive
  <2>3. CASE ccindex'[x] # ccId
    BY <2>3, <1>2 DEF Together
  <2> QED BY <2>2, <2>3
<1>8. IncludesOwnNodes'
  <2>1. DOMAIN component = 1 .. Len(component)
    BY DEF Typed
  <2> QED BY <1>3, <2>1 DEF IncludesOwnNodes
<1> QED BY <1>2, <1>5, <1>6, <1>7, <1>8

LEMMA StepTake ==
  ASSUME NEW s, NEW t, WeakInv(s, t), TakeFromQueue2
  PROVE  WeakInv(s, Without(t, 1))'
<1> DEFINE u == t[1]
           w == Without(t, 1)
<1>1. /\ Typed /\ Queues(s, t) /\ Phase(t) /\ Rooted /\ Explored(t) /\ Together
      /\ IncludesOwnNodes
  BY DEF WeakInv
<1>2. /\ Len(component) < ccId /\ unread = {} /\ queue2.head # NULL
      /\ queue2' = takeNode(queue2, links).queue /\ links' = takeNode(queue2, links).links
      /\ ccindex' = [ccindex EXCEPT ![queue2.head] = ccId]
      /\ nodeList' = [nodeList EXCEPT ![queue2.head] = @ + 1]
      /\ unread' = Adjacent(queue2.head)
      /\ UNCHANGED <<edges, queue1, ccId, component>>
  BY DEF TakeFromQueue2
<1>3. /\ edges \subseteq Nodes \X Nodes /\ ccId \in Nat /\ ccindex \in [Nodes -> 0 .. ccId]
      /\ nodeList \in [Nodes -> Nat] /\ component \in Seq([Nodes -> Nat])
      /\ links \in HeapOf(Nodes) /\ Len(component) \in Nat
  BY <1>1 DEF Typed
<1>4. /\ s \in Seq(Nodes) /\ t \in Seq(Nodes) /\ NULL \notin Nodes
      /\ IsQueue(queue1, links, s) /\ IsQueue(queue2, links, t) /\ Distinct(t)
      /\ \A x \in Nodes : Holds(s, x) <=> ccindex[x] = 0 /\ ~Holds(t, x)
      /\ \A x \in Nodes : Holds(t, x) => ccindex[x] \in {0, ccId}
  BY <1>1, NodesProps DEF Queues, IsQueue, Chained
<1>5. t # <<>> /\ 1 \in 1 .. Len(t) /\ queue2.head = u /\ u \in Nodes /\ Holds(t, u)
  BY <1>2, <1>4, HeadOf DEF Holds
<1>6. /\ IsQueue(queue2', links', w) /\ links' \in HeapOf(Nodes)
      /\ \A m \in Nodes : ~Holds(t, m) => links'[m] = links[m]
  BY <1>2, <1>3, <1>4, <1>5, TakesFirst
<1>7. w \in Seq(Nodes) /\ \A m : Holds(w, m) <=> Holds(t, m) /\ m # u
  BY <1>4, <1>5, WithoutProps
<1>8. IsQueue(queue1', links', s)
  <2>1. \A i \in 1 .. Len(s) : s[i] \in Nodes /\ ~Holds(t, s[i])
    BY <1>4 DEF Holds
  <2> QED BY <2>1, <1>2, <1>4, <1>6, QueueElsewhere
<1> HIDE DEF u, w
<1>9. /\ ccindex[u] \in {0, ccId} /\ ccindex' = [ccindex EXCEPT ![u] = ccId]
      /\ nodeList' = [nodeList EXCEPT ![u] = @ + 1] /\ unread' = Adjacent(u)
  BY <1>2, <1>4, <1>5
<1>10. ASSUME Len(component) + 1 = ccId,
              \A x \in Nodes : ccindex[x] = ccId => Linked(Nodes, edges, x, u),
              ccindex'[u] = ccId => \E r \in Nodes : Working(w, r)'
       PROVE  WeakInv(s, w)'
  <2>1. /\ Rooted' /\ Together' /\ IncludesOwnNodes'
        /\ ccindex' \in [Nodes -> 0 .. ccId]
        /\ ccindex'[u] = ccId /\ \A x \in Nodes : x # u => ccindex'[x] = ccindex[x]
    BY <1>1, <1>2, <1>5, <1>9, <1>10, Numbers
  <2>2. ccId # 0
    BY <1>3, <1>10
  <2>3. Typed'
    <3>1. nodeList' \in [Nodes -> Nat]
      BY <1>3, <1>5, <1>9
    <3>2. Adjacent(u) \subseteq Nodes
      BY <1>3, <1>5, AdjacentProps
    <3> QED BY <1>2, <1>3, <1>6, <1>9, <2>1, <3>1, <3>2 DEF Typed
  <2>4. Queues(s, w)'
    <3>1. \A x \in Nodes : Holds(s, x) <=> ccindex'[x] = 0 /\ ~Holds(w, x)
      BY <1>4, <1>5, <1>7, <2>1, <2>2
    <3>2. \A x \in Nodes : Holds(w, x) => ccindex'[x] \in {0, ccId}
      BY <1>4, <1>7, <2>1
    <3>3. \A i, j \in 1 .. Len(s) : i < j => s[i] < s[j]
      BY <1>1 DEF Queues
    <3> QED BY <1>2, <1>4, <1>6, <1>7, <1>8, <3>1, <3>2, <3>3 DEF Queues
  <2>5. Phase(w)'
    BY <1>10, <2>1 DEF Phase
  <2>6. Explored(w)'
    <3>1. \A x, v : v \in Adjacent(x)' <=> v \in Adjacent(x)
      BY <1>2 DEF Adjacent
    <3>2. ASSUME NEW x \in Nodes, ccindex'[x] # 0, ~Holds(w, x), NEW v \in Adjacent(x)
          PROVE  ccindex'[v] = ccindex'[x] \/ (v \in unread' /\ ccindex'[x] = ccId)
      <4>1. CASE x = u
        BY <4>1, <3>2, <1>9, <2>1
      <4>2. CASE x # u
        <5>1. ccindex[x] # 0 /\ ~Holds(t, x) /\ ccindex'[x] = ccindex[x]
          BY <4>2, <3>2, <1>7, <2>1
        <5>2. ccindex[v] = ccindex[x] /\ v \in Nodes
          BY <5>1, <3>2, <1>1, <1>2, <1>3, AdjacentProps DEF Explored
        <5> QED BY <5>1, <5>2, <1>9, <2>1
      <4> QED BY <4>1, <4>2
    <3>3. \A v \in unread' : ccindex'[u] = ccId /\ ~Holds(w, u) /\ v \in Adjacent(u)
      BY <1>7, <1>9, <2>1
    <3> QED BY <1>2, <1>5, <3>1, <3>2, <3>3 DEF Explored
  <2> QED BY <2>1, <2>3, <2>4, <2>5, <2>6 DEF WeakInv
<1>11. ASSUME NEW r \in Nodes, Begun(t, r) PROVE WeakInv(s, w)'
  <2>1. /\ Len(component) + 1 = ccId /\ t = <<r>> /\ nodeList = Empty /\ ccindex[r] = 0
        /\ \A x \in Nodes : ccindex[x] # ccId /\ (ccindex[x] = 0 => r <= x)
    BY <1>11 DEF Begun
  <2>2. u = r /\ ~ \E x : Holds(w, x)
    BY <2>1, <1>7 DEF u, Holds
  <2>3. ASSUME ccindex'[u] = ccId PROVE Working(w, r)'
    <3>1. \A x \in Nodes : ccindex'[x] = IF x = r THEN ccId ELSE ccindex[x]
      BY <1>3, <1>9, <2>2
    <3>2. \A x \in Nodes : nodeList'[x] = IF x = r THEN 1 ELSE 0
      BY <1>3, <1>9, <2>1, <2>2 DEF Empty
    <3>3. \A x \in Nodes : ccindex'[x] = 0 \/ ccindex'[x] >= ccId => r <= x
      <4> SUFFICES ASSUME NEW x \in Nodes, ccindex'[x] = 0 \/ ccindex'[x] >= ccId, x # r
                   PROVE  r <= x
        BY NodesProps
      <4>1. ccindex[x] \in 0 .. ccId /\ ccindex'[x] = ccindex[x] /\ ccindex[x] # ccId
        BY <1>3, <2>1, <3>1
      <4>2. ccindex[x] = 0
        BY <4>1, <1>3
      <4> QED BY <2>1, <4>2
    <3> QED BY <1>2, <1>11, <2>1, <2>2, <3>1, <3>2, <3>3 DEF Working, Root
  <2> QED BY <1>10, <2>1, <2>3
<1>12. ASSUME NEW r \in Nodes, Working(t, r) PROVE WeakInv(s, w)'
  <2>1. /\ Len(component) + 1 = ccId /\ Root(ccId, r) /\ ~Holds(t, r)
        /\ \A x \in Nodes : Holds(t, x) => ccindex[x] = ccId
        /\ \A x \in Nodes : nodeList[x] = IF ccindex[x] # ccId THEN 0
                                          ELSE IF x = r \/ Holds(t, x) THEN 1 ELSE 2
    BY <1>12 DEF Working
  <2>2. ccindex[u] = ccId /\ nodeList[u] = 1 /\ u # r
    BY <1>5, <2>1
  <2>3. ccindex' = ccindex
    BY <1>3, <1>5, <1>9, <2>2
  <2>4. \A x \in Nodes : nodeList'[x] = IF x = u THEN 2 ELSE nodeList[x]
    BY <1>3, <1>5, <1>9, <2>2
  <2>5. \A x \in Nodes : ccindex[x] = ccId => Linked(Nodes, edges, x, u)
    BY <1>1, <1>3, <1>5, <2>1, <2>2 DEF Together
  <2>6. Working(w, r)'
    BY <1>2, <1>7, <2>1, <2>2, <2>3, <2>4 DEF Working, Root
  <2> QED BY <1>10, <2>1, <2>5, <2>6
<1>13. ~Between(t)
  BY <1>2, <1>3 DEF Between
<1> QED BY <1>1, <1>11, <1>12, <1>13 DEF Phase, w

LEMMA StepLookAt ==
  ASSUME NEW s, NEW t, WeakInv(s, t), NEW v \in Nodes, LookAt(v)
  PROVE  \E w, z : WeakInv(w, z)'
<1>1. /\ Typed /\ Queues(s, t) /\ Phase(t) /\ Rooted /\ Explored(t) /\ Together
      /\ IncludesOwnNodes
  BY DEF WeakInv
<1>2. /\ v \in unread /\ unread' = unread \ {v}
      /\ UNCHANGED <<edges, ccId, component>>
  BY DEF LookAt
<1>3. /\ edges \subseteq Nodes \X Nodes /\ ccId \in Nat /\ ccindex \in [Nodes -> 0 .. ccId]
      /\ nodeList \in [Nodes -> Nat] /\ component \in Seq([Nodes -> Nat])
      /\ links \in HeapOf(Nodes) /\ unread \subseteq Nodes
  BY <1>1 DEF Typed
<1>4. PICK r \in Nodes : Working(t, r)
  BY <1>1, <1>2 DEF Phase, Between, Begun
<1>5. /\ Len(component) + 1 = ccId /\ Root(ccId, r) /\ ~Holds(t, r)
      /\ \A x \in Nodes : Holds(t, x) => ccindex[x] = ccId
      /\ \A x \in Nodes : nodeList[x] = IF ccindex[x] # ccId THEN 0
                                        ELSE IF x = r \/ Holds(t, x) THEN 1 ELSE 2
      /\ ccId # 0
  <2>1. Len(component) \in Nat
    BY <1>3
  <2> QED BY <1>3, <1>4, <2>1 DEF Working
<1>6. PICK u \in Nodes : ccindex[u] = ccId /\ ~Holds(t, u) /\ v \in Adjacent(u)
  BY <1>1, <1>2 DEF Explored
<1>7. u \in Adjacent(v) /\ Linked(Nodes, edges, u, v)
  BY <1>3, <1>6, AdjacentProps
<1>8. \A x, y : y \in Adjacent(x)' <=> y \in Adjacent(x)
  BY <1>2 DEF Adjacent
<1>9. CASE ccindex[v] = 0
  <2>1. /\ ccindex' = [ccindex EXCEPT ![v] = ccId]
        /\ nodeList' = [nodeList EXCEPT ![v] = @ + 1]
        /\ MoveToQueue2(v)
    BY <1>9 DEF LookAt
  <2>2. ~Holds(t, v) /\ Holds(s, v)
    BY <1>1, <1>5, <1>9 DEF Queues
  <2>3. PICK k \in 1 .. Len(s) : s[k] = v
    BY <2>2 DEF Holds
  <2> DEFINE w == Without(s, k)
             z == Append(t, v)
  <2>4. /\ w \in Seq(Nodes) /\ z \in Seq(Nodes)
        /\ links' \in HeapOf(Nodes)
        /\ IsQueue(queue1', links', w) /\ IsQueue(queue2', links', z)
        /\ \A i, j \in 1 .. Len(w) : i < j => w[i] < w[j]
        /\ \A m : Holds(w, m) <=> Holds(s, m) /\ m # v
        /\ \A m : Holds(z, m) <=> Holds(t, m) \/ m = v
    <3>1. MoveToQueue2(v) /\ v = s[k]
      BY <2>1, <2>3
    <3>2. Typed /\ Queues(s, t)
      BY <1>1
    <3> QED BY ONLY <3>1, <3>2, k \in 1 .. Len(s), MovesNode
  <2> HIDE DEF w, z
  <2>5. \A x \in Nodes : ccindex[x] = ccId => Linked(Nodes, edges, x, v)
    <3>1. \A x \in Nodes : ccindex[x] = ccId => Linked(Nodes, edges, x, u)
      BY <1>1, <1>5, <1>6 DEF Together
    <3> QED BY <3>1, <1>7, LinkedTransitive
  <2>6. /\ Rooted' /\ Together' /\ IncludesOwnNodes'
        /\ ccindex' \in [Nodes -> 0 .. ccId]
        /\ ccindex'[v] = ccId /\ \A x \in Nodes : x # v => ccindex'[x] = ccindex[x]
        /\ Root(ccId, r)'
    BY <1>1, <1>2, <1>5, <1>9, <2>1, <2>5, Numbers
  <2>7. nodeList' \in [Nodes -> Nat]
        /\ \A x \in Nodes : nodeList'[x] = IF x = v THEN 1 ELSE nodeList[x]
    <3>1. nodeList[v] = 0
      BY <1>5, <1>9
    <3> QED BY <3>1, <1>3, <2>1
  <2>8. Typed'
    BY <1>2, <1>3, <2>4, <2>6, <2>7 DEF Typed
  <2>9. Queues(w, z)'
    <3>1. /\ \A x \in Nodes : Holds(s, x) <=> ccindex[x] = 0 /\ ~Holds(t, x)
          /\ \A x \in Nodes : Holds(t, x) => ccindex[x] \in {0, ccId}
      BY <1>1 DEF Queues
    <3>2. \A x \in Nodes : Holds(w, x) <=> ccindex'[x] = 0 /\ ~Holds(z, x)
      BY <1>5, <2>4, <2>6, <3>1
    <3>3. \A x \in Nodes : Holds(z, x) => ccindex'[x] \in {0, ccId}
      BY <2>4, <2>6, <3>1
    <3> QED BY <1>2, <2>4, <3>2, <3>3 DEF Queues
  <2>10. Working(z, r)'
    <3>1. r # v
      BY <1>5, <1>9 DEF Root
    <3>2. \A x \in Nodes : Holds(z, x) => ccindex'[x] = ccId
      BY <1>5, <2>4, <2>6
    <3>3. \A x \in Nodes : nodeList'[x] = IF ccindex'[x] # ccId THEN 0
                                          ELSE IF x = r \/ Holds(z, x) THEN 1 ELSE 2
      BY <1>5, <2>4, <2>6, <2>7
    <3> QED BY <1>2, <1>5, <2>4, <2>6, <3>1, <3>2, <3>3 DEF Working
  <2>11. Explored(z)'
    <3>1. ASSUME NEW x \in Nodes, ccindex'[x] # 0, ~Holds(z, x), NEW y \in Adjacent(x)
          PROVE  ccindex'[y] = ccindex'[x] \/ (y \in unread' /\ ccindex'[x] = ccId)
      <4>1. x # v /\ ccindex[x] # 0 /\ ~Holds(t, x) /\ ccindex'[x] = ccindex[x]
        BY <3>1, <2>4, <2>6
      <4>2. ccindex[y] = ccindex[x] \/ (y \in unread /\ ccindex[x] = ccId)
        BY <3>1, <4>1, <1>1 DEF Explored
      <4>3. y \in Nodes
        BY <3>1, <1>3, AdjacentProps
      <4> QED BY <4>1, <4>2, <4>3, <1>2, <1>9, <2>6
    <3>2. ASSUME NEW y \in unread'
          PROVE  \E x \in Nodes : ccindex'[x] = ccId /\ ~Holds(z, x) /\ y \in Adjacent(x)
      <4>1. PICK x \in Nodes : ccindex[x] = ccId /\ ~Holds(t, x) /\ y \in Adjacent(x)
        BY <3>2, <1>1, <1>2 DEF Explored
      <4> QED BY <4>1, <1>5, <1>9, <2>4, <2>6
    <3> QED BY <3>1, <3>2, <1>2, <1>8 DEF Explored
  <2>12. Phase(z)'
    BY <2>10 DEF Phase
  <2> QED BY <2>6, <2>8, <2>9, <2>11, <2>12 DEF WeakInv
<1>10. CASE ccindex[v] # 0
  <2>1. UNCHANGED <<ccindex, nodeList, queue1, queue2, links>>
    BY <1>10 DEF LookAt, queueVars
  <2>2. ccindex[v] = ccId
    <3>1. CASE Holds(t, v)
      BY <3>1, <1>5
    <3>2. CASE ~Holds(t, v)
      BY <3>2, <1>1, <1>6, <1>7, <1>10 DEF Explored
    <3> QED BY <3>1, <3>2
  <2>3. Typed' /\ Queues(s, t)' /\ Rooted' /\ Together' /\ IncludesOwnNodes'
    <3>1. Typed'
      BY <1>2, <1>3, <2>1 DEF Typed
    <3>2. Queues(s, t)'
      BY <1>1, <1>2, <2>1 DEF Queues
    <3>3. Rooted' /\ Together' /\ IncludesOwnNodes'
      BY <1>1, <1>2, <2>1 DEF Rooted, Root, Together, IncludesOwnNodes
    <3> QED BY <3>1, <3>2, <3>3
  <2>4. Phase(t)'
    <3>1. Working(t, r)'
      BY <1>2, <1>5, <2>1 DEF Working, Root
    <3> QED BY <3>1 DEF Phase
  <2>5. Explored(t)'
    <3>1. ASSUME NEW x \in Nodes, ccindex[x] # 0, ~Holds(t, x), NEW y \in Adjacent(x)
          PROVE  ccindex[y] = ccindex[x] \/ (y \in unread' /\ ccindex[x] = ccId)
      BY <3>1, <1>1, <1>2, <2>2 DEF Explored
    <3>2. ASSUME NEW y \in unread'
          PROVE  \E x \in Nodes : ccindex[x] = ccId /\ ~Holds(t, x) /\ y \in Adjacent(x)
      BY <3>2, <1>1, <1>2 DEF Explored
    <3> QED BY <3>1, <3>2, <1>2, <1>8, <2>1 DEF Explored
  <2> QED BY <2>3, <2>4, <2>5 DEF WeakInv
<1> QED BY <1>9, <1>10

LEMMA StepClose ==
  ASSUME NEW s, NEW t, WeakInv(s, t), CloseComponent
  PROVE  WeakInv(s, t)'
<1>1. /\ Typed /\ Queues(s, t) /\ Phase(t) /\ Rooted /\ Explored(t) /\ Together
      /\ IncludesOwnNodes
  BY DEF WeakInv
<1>2. /\ Len(component) < ccId /\ unread = {} /\ queue2.head = NULL
      /\ component' = Append(component, nodeList) /\ nodeList' = Empty
      /\ UNCHANGED <<edges, queue1, queue2, links, unread, ccId, ccindex>>
  BY DEF CloseComponent, queueVars
<1>3. /\ edges \subseteq Nodes \X Nodes /\ ccId \in Nat /\ ccindex \in [Nodes -> 0 .. ccId]
      /\ nodeList \in [Nodes -> Nat] /\ component \in Seq([Nodes -> Nat])
      /\ links \in HeapOf(Nodes) /\ unread \subseteq Nodes /\ Len(component) \in Nat
  BY <1>1 DEF Typed
<1>4. t = <<>> /\ \A x : ~Holds(t, x)
  <2>1. t = <<>>
    BY <1>1, <1>2, NodesProps, HeadOf DEF Queues
  <2> QED BY <2>1 DEF Holds
<1>5. PICK r \in Nodes : Working(t, r)
  <2>1. ~Between(t) /\ \A r \in Nodes : ~Begun(t, r)
    BY <1>2, <1>3, <1>4 DEF Between, Begun
  <2> QED BY <2>1, <1>1 DEF Phase
<1>6. /\ Len(component) + 1 = ccId /\ Root(ccId, r)
      /\ \A x \in Nodes : nodeList[x] = IF ccindex[x] # ccId THEN 0
                                        ELSE IF x = r THEN 1 ELSE 2
  BY <1>4, <1>5 DEF Working
<1>7. /\ component' \in Seq([Nodes -> Nat]) /\ Len(component') = ccId
      /\ component'[ccId] = nodeList
      /\ \A c \in 1 .. Len(component) : component'[c] = component[c]
      /\ \A c \in 1 .. ccId : c = ccId \/ c \in 1 .. Len(component)
      /\ DOMAIN component = 1 .. Len(component) /\ DOMAIN component' = 1 .. ccId
  BY <1>2, <1>3, <1>6
<1>8. Typed'
  <2>1. Empty \in [Nodes -> Nat]
    BY DEF Empty
  <2> QED BY <1>2, <1>3, <1>7, <2>1 DEF Typed
<1>9. Queues(s, t)'
  BY <1>1, <1>2 DEF Queues
<1>10. Phase(t)'
  BY <1>2, <1>4, <1>7 DEF Phase, Between, Empty
<1>11. Rooted'
  <2>1. \A c, x : Root(c, x)' <=> Root(c, x)
    BY <1>2 DEF Root
  <2> QED BY <1>1, <1>6, <1>7, <2>1 DEF Rooted
<1>12. Explored(t)'
  <2>1. \A x, y : y \in Adjacent(x)' <=> y \in Adjacent(x)
    BY <1>2 DEF Adjacent
  <2> QED BY <1>1, <1>2, <2>1 DEF Explored
<1>13. Together'
  BY <1>1, <1>2 DEF Together
<1>14. IncludesOwnNodes'
  <2> SUFFICES ASSUME NEW c \in 1 .. ccId, NEW x \in Nodes
               PROVE  component'[c][x] = IF ccindex[x] # c THEN 0
                        ELSE IF \E y \in Nodes : ccindex[y] = c /\ y < x THEN 2 ELSE 1
    <3>1. ccindex' = ccindex /\ DOMAIN component' = 1 .. ccId
      BY <1>2, <1>7
    <3> QED BY <3>1 DEF IncludesOwnNodes
  <2>1. CASE c \in 1 .. Len(component)
    <3>1. c \in DOMAIN component /\ component'[c] = component[c]
      BY <2>1, <1>7
    <3>2. component[c][x] = IF ccindex[x] # c THEN 0
                            ELSE IF \E y \in Nodes : ccindex[y] = c /\ y < x THEN 2 ELSE 1
      BY <3>1, <1>1, Zenon DEF IncludesOwnNodes
    <3> QED BY <3>1, <3>2
  <2>2. CASE c = ccId
    <3>1. component'[c][x] = IF ccindex[x] # c THEN 0 ELSE IF x = r THEN 1 ELSE 2
      BY <2>2, <1>6, <1>7
    <3>2. r \in Nodes /\ ccindex[r] = c /\ \A y \in Nodes : ccindex[y] = c => r <= y
      BY <2>2, <1>3, <1>6 DEF Root
    <3>3. ccindex[x] = c => ((\E y \in Nodes : ccindex[y] = c /\ y < x) <=> x # r)
      <4>1. x \in Nat /\ r \in Nat /\ \A y \in Nodes : y \in Nat
        BY NodesProps, <3>2
      <4> QED BY <3>2, <4>1
    <3> QED BY <3>1, <3>3
  <2> QED BY <2>1, <2>2, <1>7
<1> QED BY <1>8, <1>9, <1>10, <1>11, <1>12, <1>13, <1>14 DEF WeakInv

LEMMA StepStutter ==
  ASSUME NEW s, NEW t, WeakInv(s, t), UNCHANGED vars
  PROVE  WeakInv(s, t)'
<1>1. UNCHANGED <<edges, queue1, queue2, links, unread, ccId, ccindex, nodeList, component>>
  BY DEF vars, queueVars
<1>2. Typed' /\ Queues(s, t)'
  BY <1>1 DEF WeakInv, Typed, Queues
<1>3. Phase(t)'
  BY <1>1 DEF WeakInv, Phase, Between, Begun, Working, Root
<1>4. Rooted' /\ Together' /\ IncludesOwnNodes'
  BY <1>1 DEF WeakInv, Rooted, Root, Together, IncludesOwnNodes
<1>5. Explored(t)'
  <2>1. \A x, y : y \in Adjacent(x)' <=> y \in Adjacent(x)
    BY <1>1 DEF Adjacent
  <2> QED BY <1>1, <2>1 DEF WeakInv, Explored
<1> QED BY <1>2, <1>3, <1>4, <1>5 DEF WeakInv

\* The invariant holds always.
THEOREM InvAlways == Spec => []Inv
<1>1. Init => Inv
  BY WeakInit, ReadBack DEF ReadsBack
<1>2. Inv /\ [Next]_vars => Inv'
  <2> SUFFICES ASSUME Inv, [Next]_vars PROVE Inv'
    OBVIOUS
  <2>1. WeakInv(List1, List2)
    BY DEF Inv
  <2>2. ReadsBack'
    BY ReadBack, PTL
  <2>3. PICK s, t : WeakInv(s, t)
    BY <2>1
  <2>4. (\E w, z : WeakInv(w, z)') => Inv'
    BY <2>2 DEF ReadsBack
  <2>5. CASE NextComponent
    BY <2>3, <2>4, <2>5, StepNextComponent
  <2>6. CASE TakeFromQueue2
    BY <2>3, <2>4, <2>6, StepTake
  <2>7. ASSUME NEW v \in Nodes, LookAt(v) PROVE Inv'
    BY <2>3, <2>4, <2>7, StepLookAt
  <2>8. CASE CloseComponent
    BY <2>3, <2>4, <2>8, StepClose
  <2>9. CASE UNCHANGED vars
    BY <2>3, <2>4, <2>9, StepStutter
  <2> QED BY <2>5, <2>6, <2>7, <2>8, <2>9 DEF Next, Finished
<1> QED BY <1>1, <1>2, PTL DEF Spec

-----------------------------------------------------------------------------
(* The properties *)

\* Whatever the search deletes from the middle of queue1 and moves to queue2, each of
\* the two reads the same from either end, and they hold the nodes they should.
THEOREM QueuesStayLinked == Spec => []QueuesLinked
<1>1. Inv => QueuesLinked
  <2> SUFFICES ASSUME Inv PROVE QueuesLinked
    OBVIOUS
  <2>1. WeakInv(List1, List2)
    BY DEF Inv
  <2>2. PICK s, t : s = List1 /\ t = List2
    OBVIOUS
  <2>3. /\ Typed /\ Queues(s, t) /\ Phase(t)
    BY <2>1, <2>2 DEF WeakInv
  <2>4. s \in Seq(Nodes) /\ t \in Seq(Nodes) /\ Distinct(t)
    BY <2>3 DEF Queues, IsQueue, Chained
  <2>5. /\ Walk(links, queue1.tail, "next") = Reverse(s)
        /\ Walk(links, queue2.tail, "next") = Reverse(t)
    BY <2>3, NodesProps, QueueReads DEF Typed, Queues
  <2>6. /\ DOMAIN s = 1 .. Len(s) /\ DOMAIN t = 1 .. Len(t)
        /\ \A u : u \in Range(s) <=> Holds(s, u)
        /\ \A u : u \in Range(t) <=> Holds(t, u)
        /\ Range(s) \subseteq Nodes /\ Range(t) \subseteq Nodes
    BY <2>4 DEF Range, Holds
  <2>7. \A i, j \in 1 .. Len(s) : i < j => s[i] < s[j]
    BY <2>3 DEF Queues
  <2>8. \A i, j \in 1 .. Len(t) : i # j => t[i] # t[j]
    BY <2>4 DEF Distinct
  <2>9. /\ \A u \in Nodes : Holds(s, u) <=> ccindex[u] = 0 /\ ~Holds(t, u)
        /\ \A u \in Nodes : Holds(t, u) => ccindex[u] \in {0, ccId}
    BY <2>3 DEF Queues
  <2>10. \A u \in Nodes : Holds(t, u) => nodeList[u] < 2
    <3>1. CASE nodeList = Empty
      BY <3>1 DEF Empty
    <3>2. ASSUME NEW r \in Nodes, Working(t, r)
          PROVE  \A u \in Nodes : Holds(t, u) => nodeList[u] < 2
      BY <3>2 DEF Working
    <3> QED BY <2>3, <3>1, <3>2 DEF Phase, Between, Begun
  <2>11. Range(s) \cap Range(t) = {} /\ {u \in Nodes : ccindex[u] = 0} \ Range(t) = Range(s)
    BY <2>6, <2>9
  <2>12. /\ List1 = Walk(links, queue1.head, "previous")
         /\ List2 = Walk(links, queue2.head, "previous")
    BY DEF List1, List2
  <2> QED BY <2>2, <2>5, <2>6, <2>7, <2>8, <2>9, <2>10, <2>11, <2>12 DEF QueuesLinked
<1> QED BY <1>1, InvAlways, PTL

\* Each finished component includes the nodes that bear its id and no others.
THEOREM ComponentsIncludeTheirNodes == Spec => []IncludesOwnNodes
<1>1. Inv => IncludesOwnNodes
  BY DEF Inv, WeakInv
<1> QED BY <1>1, InvAlways, PTL

\* When the search has finished, on any graph whatever, the components are those of the
\* graph, numbered from 1 in the order of their least nodes.
THEOREM NumberingIsLeft == Spec => []LeavesNumbering
<1>1. Inv => LeavesNumbering
  <2> SUFFICES ASSUME Inv, Finished
               PROVE  /\ NumberedByLeast(Nodes, edges, ccindex)
                      /\ \A u \in Nodes : ccindex[u] \in 1 .. ccId
    BY DEF LeavesNumbering
  <2>1. WeakInv(List1, List2)
    BY DEF Inv
  <2>2. PICK s, t : s = List1 /\ t = List2
    OBVIOUS
  <2>3. /\ Typed /\ Queues(s, t) /\ Phase(t) /\ Rooted /\ Explored(t) /\ Together
    BY <2>1, <2>2 DEF WeakInv
  <2>4. /\ edges \subseteq Nodes \X Nodes /\ ccId \in Nat /\ ccindex \in [Nodes -> 0 .. ccId]
        /\ Len(component) = ccId /\ queue1.head = NULL
    BY <2>3 DEF Typed, Finished
  <2>5. t = <<>> /\ unread = {}
    <3>1. ~(Len(component) + 1 = ccId)
      BY <2>4
    <3> QED BY <2>3, <3>1 DEF Phase, Between, Begun, Working
  <2>6. \A u : ~Holds(s, u) /\ ~Holds(t, u)
    <3>1. s = <<>>
      BY <2>3, <2>4, NodesProps, HeadOf DEF Queues
    <3> QED BY <2>5, <3>1 DEF Holds
  <2>7. \A u \in Nodes : ccindex[u] # 0 /\ ccindex[u] \in 1 .. ccId
    <3>1. \A u \in Nodes : ccindex[u] # 0
      BY <2>3, <2>6 DEF Queues
    <3> QED BY <2>4, <3>1
  <2>8. \A u \in Nodes : \A v \in Adjacent(u) : ccindex[v] = ccindex[u]
    BY <2>3, <2>5, <2>6, <2>7 DEF Explored
  <2>9. ASSUME NEW u \in Nodes, NEW v \in Nodes
        PROVE  ccindex[u] = ccindex[v] <=> Linked(Nodes, edges, u, v)
    <3>1. ccindex[u] = ccindex[v] => Linked(Nodes, edges, u, v)
      BY <2>3, <2>7 DEF Together
    <3>2. ASSUME Linked(Nodes, edges, u, v) PROVE ccindex[u] = ccindex[v]
      <4> DEFINE C == {x \in Nodes : ccindex[x] = ccindex[u]}
      <4>1. Closed(edges, C)
        <5> SUFFICES ASSUME NEW e \in edges PROVE e[1] \in C <=> e[2] \in C
          BY DEF Closed
        <5>1. e[1] \in Nodes /\ e[2] \in Nodes /\ e = <<e[1], e[2]>>
          BY <2>4
        <5>2. e[2] \in Adjacent(e[1])
          BY <5>1, <2>4, AdjacentProps
        <5> QED BY <5>1, <5>2, <2>8
      <4>2. C \in SUBSET Nodes /\ u \in C
        OBVIOUS
      <4> HIDE DEF C
      <4>3. v \in C
        BY <3>2, <4>1, <4>2 DEF Linked
      <4> QED BY <4>3 DEF C
    <3> QED BY <3>1, <3>2
  <2>10. \A c \in 1 .. ccId : \E r \in Nodes : Root(c, r)
    BY <2>3, <2>4 DEF Rooted
  <2>11. ASSUME NEW u \in Nodes, NEW v \in Nodes, ccindex[u] < ccindex[v]
         PROVE  \E w \in Nodes : ccindex[w] = ccindex[u]
                                 /\ \A x \in Nodes : ccindex[x] = ccindex[v] => w < x
    <3>1. PICK w \in Nodes : Root(ccindex[u], w)
      BY <2>7, <2>10
    <3>2. ASSUME NEW x \in Nodes, ccindex[x] = ccindex[v] PROVE w < x
      <4>1. ccindex[w] = ccindex[u] /\ (ccindex[x] >= ccindex[u] => w <= x)
        BY <3>1 DEF Root
      <4>2. ccindex[u] \in Nat /\ ccindex[v] \in Nat /\ w \in Nat /\ x \in Nat
        BY <2>7, NodesProps
      <4> QED BY <4>1, <4>2, <3>2, <2>11
    <3> QED BY <3>1, <3>2 DEF Root
  <2>12. ASSUME NEW u \in Nodes, ccindex[u] > 1 PROVE \E v \in Nodes : ccindex[v] = ccindex[u] - 1
    <3>1. ccindex[u] - 1 \in 1 .. ccId
      BY <2>4, <2>7, <2>12
    <3>2. PICK v \in Nodes : Root(ccindex[u] - 1, v)
      BY <2>10, <3>1
    <3> QED BY <3>2 DEF Root
  <2> QED BY <2>7, <2>9, <2>11, <2>12 DEF NumberedByLeast
<1> QED BY <1>1, InvAlways, PTL

=============================================================================
