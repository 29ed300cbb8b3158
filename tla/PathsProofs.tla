----------------------------- MODULE PathsProofs -----------------------------
(***************************************************************************)
(* What the reference definitions of Paths.tla say of every graph: the     *)
(* equations of Forward, reachability, distances.  Forward is a recursive  *)
(* function; that it exists and obeys its equations is proved first, by    *)
(* induction over sets of numbers.                                         *)
(***************************************************************************)
EXTENDS Paths, FiniteSetTheorems, WellFoundedInduction, TLAPS

\* The nodes of B and those that one edge leads to from B.
Widen(E, B) == B \cup {e[2] : e \in {d \in E : d[1] \in B}}

\* No edge leaves C.
TakesAll(E, C) == \A e \in E : e[1] \in C => e[2] \in C

\* g holds the first n + 1 values of Forward.
Begins(E, s, n, g) ==
  /\ g[0] = {s}
  /\ \A k \in 1 .. n : g[k] = Widen(E, g[k - 1])

-----------------------------------------------------------------------------
(* Induction *)

\* Every set of numbers has a least one.
LEMMA LeastNat ==
  ASSUME NEW T \in SUBSET Nat, T # {}
  PROVE  \E x \in T : \A y \in T : x <= y
<1> DEFINE R == OpToRel(<, Nat)
<1>1. IsWellFoundedOn(R, Nat)
  BY NatLessThanWellFounded, Zenon
<1>2. \A x, y \in Nat : <<y, x>> \in R <=> y < x
  BY DEF OpToRel
<1> HIDE DEF R
<1>3. PICK x \in T : \A y \in T : ~ (<<y, x>> \in R)
  BY <1>1, WFMin
<1>4. SUFFICES ASSUME NEW y \in T PROVE x <= y
  OBVIOUS
<1>5. x \in Nat /\ y \in Nat /\ ~(<<y, x>> \in R)
  BY <1>3
<1>6. ~(y < x)
  BY <1>2, <1>5
<1> QED BY ONLY <1>5, <1>6

\* A set of numbers that holds 0 and every successor of its members is Nat.
LEMMA SetInduction ==
  ASSUME NEW T \in SUBSET Nat, 0 \in T, \A n \in T : n + 1 \in T
  PROVE  T = Nat
<1> SUFFICES ASSUME Nat \ T # {} PROVE FALSE
  OBVIOUS
<1>1. PICK x \in Nat \ T : \A y \in Nat \ T : x <= y
  <2> DEFINE S == Nat \ T
  <2>1. S \in SUBSET Nat /\ S # {}
    OBVIOUS
  <2> HIDE DEF S
  <2>2. \E x \in S : \A y \in S : x <= y
    BY <2>1, LeastNat
  <2> QED BY <2>2 DEF S
<1>2. x # 0 /\ x - 1 \in Nat /\ (x - 1) + 1 = x /\ ~(x <= x - 1)
  BY <1>1
<1>3. x - 1 \in T
  BY <1>1, <1>2
<1> QED BY <1>1, <1>2, <1>3

-----------------------------------------------------------------------------
(* Forward obeys its equations *)

\* Any number of its values exist.
LEMMA BeginsExist ==
  ASSUME NEW E, NEW s
  PROVE  \A n \in Nat : \E g : g = [k \in 0 .. n |-> g[k]] /\ Begins(E, s, n, g)
<1> DEFINE T == {n \in Nat : \E g : g = [k \in 0 .. n |-> g[k]] /\ Begins(E, s, n, g)}
<1>1. 0 \in T
  <2> DEFINE g == [k \in 0 .. 0 |-> {s}]
  <2>1. g = [k \in 0 .. 0 |-> g[k]] /\ g[0] = {s}
    OBVIOUS
  <2>2. Begins(E, s, 0, g)
    BY <2>1 DEF Begins
  <2> QED BY <2>1, <2>2
<1>2. \A n \in T : n + 1 \in T
  <2> SUFFICES ASSUME NEW n \in Nat, NEW g, g = [k \in 0 .. n |-> g[k]], Begins(E, s, n, g)
               PROVE  n + 1 \in T
    OBVIOUS
  <2> DEFINE h == [k \in 0 .. n + 1 |-> IF k = n + 1 THEN Widen(E, g[n]) ELSE g[k]]
  <2>1. h = [k \in 0 .. n + 1 |-> h[k]] /\ h[0] = g[0] /\ h[n + 1] = Widen(E, g[n])
        /\ \A k \in 0 .. n : h[k] = g[k]
    OBVIOUS
  <2> HIDE DEF h
  <2>2. Begins(E, s, n + 1, h)
    <3>1. \A k \in 1 .. n + 1 : k - 1 \in 0 .. n /\ (k = n + 1 \/ k \in 1 .. n) /\ (k = n + 1 => k - 1 = n)
          /\ (k \in 1 .. n => k \in 0 .. n)
      OBVIOUS
    <3>2. \A k \in 1 .. n + 1 : h[k] = Widen(E, h[k - 1])
      BY <2>1, <3>1 DEF Begins
    <3> QED BY <2>1, <3>2 DEF Begins
  <2> QED BY <2>1, <2>2
<1>3. T \in SUBSET Nat
  OBVIOUS
<1> HIDE DEF T
<1>4. T = Nat
  BY <1>1, <1>2, <1>3, SetInduction
<1> QED BY <1>4 DEF T

\* They are the only ones.
LEMMA BeginsUnique ==
  ASSUME NEW E, NEW s, NEW m \in Nat, NEW n \in Nat, NEW g, NEW h,
         Begins(E, s, m, g), Begins(E, s, n, h)
  PROVE  \A k \in Nat : k <= m /\ k <= n => g[k] = h[k]
<1> DEFINE T == {k \in Nat : k <= m /\ k <= n => g[k] = h[k]}
<1>1. 0 \in T
  BY DEF Begins
<1>2. \A k \in T : k + 1 \in T
  <2> SUFFICES ASSUME NEW k \in T, k + 1 <= m, k + 1 <= n PROVE g[k + 1] = h[k + 1]
    OBVIOUS
  <2>1. g[k] = h[k]
    OBVIOUS
  <2>2. k + 1 \in 1 .. m /\ k + 1 \in 1 .. n /\ (k + 1) - 1 = k
    OBVIOUS
  <2> QED BY <2>1, <2>2 DEF Begins
<1>3. T \in SUBSET Nat
  OBVIOUS
<1> HIDE DEF T
<1>4. T = Nat
  BY <1>1, <1>2, <1>3, SetInduction
<1> QED BY <1>4 DEF T

\* Forward begins with the node alone and widens with every step.
LEMMA ForwardStep ==
  ASSUME NEW E, NEW s
  PROVE  /\ Forward(E, s)[0] = {s}
         /\ \A n \in Nat : Forward(E, s)[n + 1] = Widen(E, Forward(E, s)[n])
<1> DEFINE Rec(b) == b = [n \in Nat |-> IF n = 0 THEN {s} ELSE Widen(E, b[n - 1])]
           G(n) == CHOOSE g : g = [k \in 0 .. n |-> g[k]] /\ Begins(E, s, n, g)
           f == [n \in Nat |-> G(n)[n]]
<1>1. \A n \in Nat : Begins(E, s, n, G(n))
  <2> SUFFICES ASSUME NEW n \in Nat PROVE Begins(E, s, n, G(n))
    OBVIOUS
  <2> QED BY BeginsExist
<1> HIDE DEF G
<1>2. Rec(f)
  <2>1. f[0] = {s}
    BY <1>1 DEF Begins
  <2>2. \A n \in Nat \ {0} : f[n] = Widen(E, f[n - 1])
    <3> SUFFICES ASSUME NEW n \in Nat \ {0} PROVE f[n] = Widen(E, f[n - 1])
      OBVIOUS
    <3>1. n - 1 \in Nat /\ n - 1 <= n /\ n - 1 <= n - 1 /\ n \in 1 .. n
      OBVIOUS
    <3>2. G(n)[n] = Widen(E, G(n)[n - 1])
      BY <1>1, <3>1 DEF Begins
    <3>3. G(n)[n - 1] = G(n - 1)[n - 1]
      BY <1>1, <3>1, BeginsUnique
    <3> QED BY <3>1, <3>2, <3>3
  <2>3. \A n \in Nat : f[n] = IF n = 0 THEN {s} ELSE Widen(E, f[n - 1])
    BY <2>1, <2>2
  <2>4. f = [n \in Nat |-> f[n]]
    OBVIOUS
  <2> HIDE DEF f
  <2> QED BY <2>3, <2>4
<1>3. Forward(E, s) = CHOOSE b : Rec(b)
  BY DEF Forward, Widen
<1> HIDE DEF f
<1>4. Rec(Forward(E, s))
  <2> HIDE DEF Rec
  <2> QED BY <1>2, <1>3
<1> DEFINE F == Forward(E, s)
<1>5. F = [n \in Nat |-> IF n = 0 THEN {s} ELSE Widen(E, F[n - 1])]
  BY <1>4
<1> HIDE DEF F
<1>6. F[0] = {s} 
  BY <1>5
<1>7. ASSUME NEW n \in Nat PROVE F[n + 1] = Widen(E, F[n])
  <2>1. n + 1 \in Nat /\ n + 1 # 0 /\ (n + 1) - 1 = n
    OBVIOUS
  <2> QED BY <1>5, <2>1
<1> QED BY <1>6, <1>7 DEF F

-----------------------------------------------------------------------------
(* Reachability *)

\* A set that no edge leaves holds whatever its nodes lead to.
LEMMA ForwardStays ==
  ASSUME NEW E, NEW s, NEW C, s \in C, TakesAll(E, C)
  PROVE  \A n \in Nat : Forward(E, s)[n] \subseteq C
<1> DEFINE F == Forward(E, s)
           T == {n \in Nat : F[n] \subseteq C}
<1>1. F[0] = {s} /\ \A n \in Nat : F[n + 1] = Widen(E, F[n])
  BY ForwardStep
<1> HIDE DEF F
<1>2. 0 \in T
  BY <1>1
<1>3. \A n \in T : n + 1 \in T
  BY <1>1 DEF Widen, TakesAll
<1>4. T \in SUBSET Nat
  OBVIOUS
<1> HIDE DEF T
<1>5. T = Nat
  BY <1>2, <1>3, <1>4, SetInduction
<1> QED BY <1>5 DEF T, F

\* More edges reach no fewer nodes.
LEMMA ForwardGrows ==
  ASSUME NEW E, NEW s, NEW m \in Nat, NEW n \in Nat, m <= n
  PROVE  Forward(E, s)[m] \subseteq Forward(E, s)[n]
<1> DEFINE F == Forward(E, s)
           T == {k \in Nat : F[m] \subseteq F[m + k]}
<1>1. \A k \in Nat : F[k] \subseteq F[k + 1]
  BY ForwardStep DEF Widen
<1> HIDE DEF F
<1>2. 0 \in T
  OBVIOUS
<1>3. \A k \in T : k + 1 \in T
  <2> SUFFICES ASSUME NEW k \in T PROVE F[m] \subseteq F[m + (k + 1)]
    OBVIOUS
  <2>1. m + k \in Nat /\ m + (k + 1) = (m + k) + 1
    OBVIOUS
  <2> QED BY <1>1, <2>1
<1>4. T \in SUBSET Nat
  OBVIOUS
<1> HIDE DEF T
<1>5. T = Nat
  BY <1>2, <1>3, <1>4, SetInduction
<1>6. n - m \in Nat /\ m + (n - m) = n
  OBVIOUS
<1> QED BY <1>5, <1>6 DEF T, F

\* Edges between nodes lead from a node to nodes.
LEMMA ForwardInside ==
  ASSUME NEW N, NEW E, E \subseteq N \X N, NEW s \in N
  PROVE  \A n \in Nat : Forward(E, s)[n] \subseteq N
<1>1. TakesAll(E, N)
  BY DEF TakesAll
<1> QED BY <1>1, ForwardStays

\* Every step adds a node until no edge leaves the set.
LEMMA ForwardFills ==
  ASSUME NEW N, IsFiniteSet(N), NEW E, E \subseteq N \X N, NEW s \in N, NEW n \in Nat,
         ~TakesAll(E, Forward(E, s)[n])
  PROVE  n + 1 <= Cardinality(Forward(E, s)[n])
<1> DEFINE F == Forward(E, s)
           T == {k \in Nat : k <= n => k + 1 <= Cardinality(F[k])}
<1>1. F[0] = {s} /\ \A k \in Nat : F[k + 1] = Widen(E, F[k])
  BY ForwardStep
<1>2. \A k \in Nat : F[k] \subseteq N
  BY ForwardInside
<1>3. ASSUME NEW k \in Nat, k <= n, TakesAll(E, F[k]) PROVE F[n] = F[k]
  <2>1. s \in F[k]
    BY <1>1, ForwardGrows
  <2>2. F[k] \subseteq F[n]
    BY <1>3, ForwardGrows
  <2>3. F[n] \subseteq F[k]
    BY <1>3, <2>1, ForwardStays
  <2> QED BY <2>2, <2>3
<1>4. ~TakesAll(E, F[n])
  OBVIOUS
<1> HIDE DEF F
<1>5. ASSUME NEW k \in Nat, k <= n, TakesAll(E, F[k]) PROVE FALSE
  <2>1. F[n] = F[k]
    BY <1>5, <1>3
  <2> QED BY <1>4, <1>5, <2>1
<1>6. \A k \in Nat : IsFiniteSet(F[k]) /\ Cardinality(F[k]) \in Nat
  <2> SUFFICES ASSUME NEW k \in Nat PROVE IsFiniteSet(F[k]) /\ Cardinality(F[k]) \in Nat
    OBVIOUS
  <2>1. F[k] \in SUBSET N
    BY <1>2
  <2>2. IsFiniteSet(F[k])
    BY <2>1, FS_Subset
  <2> QED BY <2>2, FS_CardinalityType
<1>7. 0 \in T
  <2>1. Cardinality({s}) = 1
    BY FS_Singleton
  <2> QED BY <1>1, <2>1
<1>8. \A k \in T : k + 1 \in T
  <2> SUFFICES ASSUME NEW k \in T, k + 1 <= n PROVE (k + 1) + 1 <= Cardinality(F[k + 1])
    OBVIOUS
  <2>1. k <= n /\ k + 1 <= Cardinality(F[k]) /\ k + 1 \in Nat
    OBVIOUS
  <2>2. PICK e \in E : e[1] \in F[k] /\ e[2] \notin F[k]
    BY <1>5, <2>1 DEF TakesAll
  <2>3. F[k] \subseteq F[k + 1] /\ e[2] \in F[k + 1]
    BY <1>1, <2>2 DEF Widen
  <2>4. F[k] # F[k + 1]
    BY <2>2, <2>3
  <2>5. Cardinality(F[k]) < Cardinality(F[k + 1])
    <3>1. IsFiniteSet(F[k + 1])
      BY <1>6, <2>1
    <3>2. Cardinality(F[k]) <= Cardinality(F[k + 1]) /\ (Cardinality(F[k]) = Cardinality(F[k + 1]) => F[k] = F[k + 1])
      BY <2>3, <3>1, FS_Subset
    <3>3. Cardinality(F[k]) \in Nat /\ Cardinality(F[k + 1]) \in Nat
      BY <1>6, <2>1
    <3> QED BY ONLY <2>4, <3>2, <3>3
  <2>6. Cardinality(F[k]) \in Nat /\ Cardinality(F[k + 1]) \in Nat /\ k \in Nat
    BY <1>6, <2>1
  <2> QED BY ONLY <2>1, <2>5, <2>6
<1>9. T \in SUBSET Nat
  OBVIOUS
<1> HIDE DEF T
<1>10. T = Nat
  BY <1>7, <1>8, <1>9, SetInduction
<1> QED BY <1>10 DEF T, F

\* As many edges as there are nodes reach all that any number reach.
LEMMA ForwardSettles ==
  ASSUME NEW N, IsFiniteSet(N), NEW E, E \subseteq N \X N, NEW s \in N
  PROVE  /\ TakesAll(E, Forward(E, s)[Cardinality(N)])
         /\ \A n \in Nat : Forward(E, s)[n] \subseteq Forward(E, s)[Cardinality(N)]
<1> DEFINE F == Forward(E, s)
           c == Cardinality(N)
<1>1. c \in Nat
  BY FS_CardinalityType
<1>2. F[c] \subseteq N /\ Cardinality(F[c]) \in Nat /\ Cardinality(F[c]) <= c
  <2>1. F[c] \subseteq N
    BY <1>1, ForwardInside
  <2> HIDE DEF F
  <2> QED BY <2>1, FS_Subset, FS_CardinalityType
<1>3. TakesAll(E, F[c])
  <2> SUFFICES ASSUME ~TakesAll(E, F[c]) PROVE FALSE
    OBVIOUS
  <2>1. c + 1 <= Cardinality(F[c])
    BY <1>1, ForwardFills
  <2> HIDE DEF F, c
  <2> QED BY ONLY <1>1, <1>2, <2>1
<1>4. s \in F[c]
  BY <1>1, ForwardStep, ForwardGrows
<1> QED BY <1>3, <1>4, ForwardStays

\* What a node leads to leads on.
LEMMA ForwardOn ==
  ASSUME NEW N, IsFiniteSet(N), NEW E, E \subseteq N \X N, NEW u \in N, NEW v, NEW n \in Nat,
         v \in Forward(E, u)[Cardinality(N)]
  PROVE  Forward(E, v)[n] \subseteq Forward(E, u)[Cardinality(N)]
  BY ForwardSettles, ForwardStays

\* The nodes that a node leads to are those that every set takes in that no edge
\* leaves.
LEMMA ForwardLeast ==
  ASSUME NEW N, IsFiniteSet(N), NEW E, E \subseteq N \X N, NEW u \in N, NEW v,
         \A C \in SUBSET N : u \in C /\ TakesAll(E, C) => v \in C
  PROVE  v \in Forward(E, u)[Cardinality(N)]
<1> DEFINE C == Forward(E, u)[Cardinality(N)]
<1>1. Cardinality(N) \in Nat
  BY FS_CardinalityType
<1>2. C \subseteq N /\ TakesAll(E, C) /\ u \in C
  BY <1>1, ForwardInside, ForwardSettles, ForwardGrows, ForwardStep
<1> HIDE DEF C
<1>3. v \in C
  BY <1>2
<1> QED BY <1>3 DEF C

-----------------------------------------------------------------------------
(* Paths put together and taken apart *)

\* n edges after m edges are m + n edges.
LEMMA ForwardJoined ==
  ASSUME NEW E, NEW u, NEW v, NEW m \in Nat, v \in Forward(E, u)[m]
  PROVE  \A n \in Nat : Forward(E, v)[n] \subseteq Forward(E, u)[m + n]
<1> DEFINE F == Forward(E, u)
           G == Forward(E, v)
           T == {n \in Nat : G[n] \subseteq F[m + n]}
<1>1. /\ v \in F[m] /\ \A n \in Nat : F[n + 1] = Widen(E, F[n])
      /\ G[0] = {v} /\ \A n \in Nat : G[n + 1] = Widen(E, G[n])
  BY ForwardStep
<1> HIDE DEF F, G
<1>2. 0 \in T
  BY <1>1
<1>3. \A n \in T : n + 1 \in T
  <2> SUFFICES ASSUME NEW n \in T PROVE G[n + 1] \subseteq F[m + (n + 1)]
    OBVIOUS
  <2>1. m + n \in Nat /\ m + (n + 1) = (m + n) + 1
    OBVIOUS
  <2>2. F[m + (n + 1)] = Widen(E, F[m + n]) /\ G[n + 1] = Widen(E, G[n])
    BY <1>1, <2>1
  <2> QED BY <2>2 DEF Widen
<1>4. T \in SUBSET Nat
  OBVIOUS
<1> HIDE DEF T
<1>5. T = Nat
  BY <1>2, <1>3, <1>4, SetInduction
<1> QED BY <1>5 DEF T, F, G

\* m + n edges pass through a node after m of them.
LEMMA ForwardParted ==
  ASSUME NEW E, NEW u, NEW m \in Nat
  PROVE  \A n \in Nat : \A w \in Forward(E, u)[m + n] :
           \E v \in Forward(E, u)[m] : w \in Forward(E, v)[n]
<1> DEFINE F == Forward(E, u)
           T == {n \in Nat : \A w \in F[m + n] : \E v \in F[m] : w \in Forward(E, v)[n]}
<1>1. \A n \in Nat : F[n + 1] = Widen(E, F[n])
  BY ForwardStep
<1>2. \A v : /\ Forward(E, v)[0] = {v}
             /\ \A n \in Nat : Forward(E, v)[n + 1] = Widen(E, Forward(E, v)[n])
  BY ForwardStep
<1> HIDE DEF F
<1>3. 0 \in T
  BY <1>2
<1>4. \A n \in T : n + 1 \in T
  <2> SUFFICES ASSUME NEW n \in T, NEW w \in F[m + (n + 1)]
               PROVE  \E v \in F[m] : w \in Forward(E, v)[n + 1]
    OBVIOUS
  <2>1. m + n \in Nat /\ m + (n + 1) = (m + n) + 1 /\ n \in Nat
    OBVIOUS
  <2>2. w \in Widen(E, F[m + n])
    BY <1>1, <2>1
  <2>3. \A x \in F[m + n] : \E v \in F[m] : x \in Forward(E, v)[n]
    OBVIOUS
  <2>4. CASE w \in F[m + n]
    <3>1. PICK v \in F[m] : w \in Forward(E, v)[n]
      BY <2>3, <2>4
    <3>2. w \in Forward(E, v)[n + 1]
      BY <1>2, <2>1, <3>1 DEF Widen
    <3> QED BY <3>2
  <2>5. ASSUME NEW e \in E, e[1] \in F[m + n], w = e[2]
        PROVE  \E v \in F[m] : w \in Forward(E, v)[n + 1]
    <3>1. PICK v \in F[m] : e[1] \in Forward(E, v)[n]
      BY <2>3, <2>5
    <3>2. w \in Forward(E, v)[n + 1]
      BY <1>2, <2>1, <2>5, <3>1 DEF Widen
    <3> QED BY <3>2
  <2> QED BY <2>2, <2>4, <2>5 DEF Widen
<1>5. T \in SUBSET Nat
  OBVIOUS
<1> HIDE DEF T
<1>6. T = Nat
  BY <1>3, <1>4, <1>5, SetInduction
<1> QED BY <1>6 DEF T, F

\* The same edges turned round lead back.
LEMMA ForwardTurned ==
  ASSUME NEW E, NEW R, \A e \in E : <<e[2], e[1]>> \in R, NEW u
  PROVE  \A n \in Nat : \A v \in Forward(E, u)[n] : u \in Forward(R, v)[n]
<1> DEFINE F == Forward(E, u)
           T == {n \in Nat : \A v \in F[n] : u \in Forward(R, v)[n]}
<1>1. F[0] = {u} /\ \A n \in Nat : F[n + 1] = Widen(E, F[n])
  BY ForwardStep
<1>2. \A v : /\ Forward(R, v)[0] = {v}
             /\ \A n \in Nat : Forward(R, v)[n + 1] = Widen(R, Forward(R, v)[n])
  BY ForwardStep
<1> HIDE DEF F
<1>3. 0 \in T
  BY <1>1, <1>2
<1>4. \A n \in T : n + 1 \in T
  <2> SUFFICES ASSUME NEW n \in T, NEW v \in F[n + 1] PROVE u \in Forward(R, v)[n + 1]
    OBVIOUS
  <2>1. n \in Nat /\ \A x \in F[n] : u \in Forward(R, x)[n]
    OBVIOUS
  <2>2. v \in Widen(E, F[n])
    BY <1>1
  <2>3. CASE v \in F[n]
    BY <1>2, <2>1, <2>3 DEF Widen
  <2>4. ASSUME NEW e \in E, e[1] \in F[n], v = e[2] PROVE u \in Forward(R, v)[n + 1]
    <3>1. u \in Forward(R, e[1])[n]
      BY <2>1, <2>4
    <3>2. <<v, e[1]>> \in R
      BY <2>4
    <3>3. e[1] \in Forward(R, v)[1]
      <4>1. Forward(R, v)[0] = {v} /\ Forward(R, v)[0 + 1] = Widen(R, Forward(R, v)[0])
        BY ONLY ForwardStep
      <4>2. Forward(R, v)[1] = Widen(R, {v})
        BY ONLY <4>1
      <4> QED BY <3>2, <4>2 DEF Widen
    <3>4. u \in Forward(R, v)[1 + n]
      BY <2>1, <3>1, <3>3, ForwardJoined
    <3>5. 1 + n = n + 1
      BY <2>1
    <3> QED BY <3>4, <3>5
  <2> QED BY <2>2, <2>3, <2>4 DEF Widen
<1>5. T \in SUBSET Nat
  OBVIOUS
<1> HIDE DEF T
<1>6. T = Nat
  BY <1>3, <1>4, <1>5, SetInduction
<1> QED BY <1>6 DEF T, F

-----------------------------------------------------------------------------
(* Distances *)

\* The distance is the first number of edges that reach the node.
LEMMA DistFound ==
  ASSUME NEW N, IsFiniteSet(N), NEW E, E \subseteq N \X N, NEW s \in N, NEW f, NEW n \in Nat,
         f \in Forward(E, s)[n], \A m \in Nat : m < n => f \notin Forward(E, s)[m]
  PROVE  Dist(N, E, s, f) = n
<1> DEFINE F == Forward(E, s)
           c == Cardinality(N)
           L == {k \in 0 .. c : f \in F[k]}
<1>1. c \in Nat
  BY FS_CardinalityType
<1>2. F[n] \subseteq F[c]
  BY ForwardSettles
<1>3. n \in 0 .. c
  <2>1. f \in F[c] /\ \A m \in Nat : m < n => f \notin F[m]
    BY <1>2
  <2>2. ~(c < n)
    BY <1>1, <2>1
  <2> QED BY <1>1, <2>2
<1>4. n \in L /\ \A k \in L : n <= k /\ k \in Nat
  <2> HIDE DEF F
  <2>1. f \in F[n] /\ \A m \in Nat : m < n => f \notin F[m]
    BY DEF F
  <2> QED BY <1>1, <1>3, <2>1
<1>5. Dist(N, E, s, f) = IF L = {} THEN -1 ELSE CHOOSE k \in L : \A m \in L : k <= m
  BY DEF Dist
<1> HIDE DEF L
<1>6. \A k \in L : (\A m \in L : k <= m) => k = n
  BY <1>4
<1>7. (CHOOSE k \in L : \A m \in L : k <= m) = n
  BY <1>4, <1>6
<1> QED BY <1>4, <1>5, <1>7

\* There is none if no number does.
LEMMA DistNone ==
  ASSUME NEW N, IsFiniteSet(N), NEW E, NEW s, NEW f, f \notin Forward(E, s)[Cardinality(N)]
  PROVE  Dist(N, E, s, f) = -1
<1> DEFINE L == {k \in 0 .. Cardinality(N) : f \in Forward(E, s)[k]}
<1>1. Cardinality(N) \in Nat
  BY FS_CardinalityType
<1>2. L = {}
  BY <1>1, ForwardGrows
<1>3. Dist(N, E, s, f) = IF L = {} THEN -1 ELSE CHOOSE k \in L : \A m \in L : k <= m
  BY DEF Dist
<1> QED BY <1>2, <1>3

\* A node that is reached at all has a distance.
LEMMA DistExists ==
  ASSUME NEW E, NEW s, NEW f, NEW n \in Nat, f \in Forward(E, s)[n]
  PROVE  \E k \in Nat : /\ k <= n /\ f \in Forward(E, s)[k]
                         /\ \A m \in Nat : m < k => f \notin Forward(E, s)[m]
<1> DEFINE T == {k \in Nat : f \in Forward(E, s)[k]}
<1>1. T \in SUBSET Nat /\ n \in T
  OBVIOUS
<1>2. PICK k \in T : \A m \in T : k <= m
  <2> HIDE DEF T
  <2> QED BY <1>1, LeastNat
<1>3. k \in Nat /\ k <= n /\ f \in Forward(E, s)[k]
  BY <1>1, <1>2
<1>4. \A m \in Nat : m < k => f \notin Forward(E, s)[m]
  BY <1>2, <1>3
<1> QED BY <1>3, <1>4
=============================================================================
