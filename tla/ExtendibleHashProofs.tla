------------------------ MODULE ExtendibleHashProofs ------------------------
(***************************************************************************)
(* Theorems about ExtendibleHash.tla, for any keys, hash values and sizes. *)
(***************************************************************************)
EXTENDS ExtendibleHash, PathsProofs, SequenceTheorems

-----------------------------------------------------------------------------
(* Remainders *)

LEMMA Division ==
  ASSUME NEW x \in Nat, NEW w \in Nat \ {0}
  PROVE  /\ x = w * (x \div w) + (x % w) /\ x \div w \in Nat
         /\ x % w \in 0 .. w - 1
  BY SMT

LEMMA DivisionUnique ==
  ASSUME NEW x \in Nat, NEW w \in Nat \ {0}, NEW q \in Nat, NEW r \in 0 .. w - 1, x = w * q + r
  PROVE  x % w = r
  BY SMTT(30)

\* A remainder by a multiple of w has the same remainder by w.
LEMMA RemainderOfRemainder ==
  ASSUME NEW x \in Nat, NEW w \in Nat \ {0}, NEW m \in Nat \ {0}
  PROVE  (x % (w * m)) % w = x % w
<1> DEFINE v == w * m
           y == x % v
           A == x \div v
           B == y \div w
           r == y % w
<1>0. v \in Nat \ {0}
  OBVIOUS
<1> HIDE DEF v
<1>1. x = v * A + y /\ A \in Nat /\ y \in Nat
  <2>1. x = v * (x \div v) + (x % v) /\ x \div v \in Nat /\ x % v \in 0 .. v - 1
    BY ONLY <1>0, x \in Nat, Division
  <2> QED BY <2>1, <1>0
<1>2. y = w * B + r /\ B \in Nat /\ r \in 0 .. w - 1
  BY <1>1, Division
<1> HIDE DEF y, A, B, r
<1>3. x = w * (m * A + B) + r /\ m * A + B \in Nat
  <2>1. v * A + w * B = w * (m * A + B)
    BY <1>1, <1>2 DEF v
  <2>2. x = v * A + w * B + r
    BY ONLY <1>0, <1>1, <1>2
  <2>3. m * A + B \in Nat
    BY ONLY <1>1, <1>2, m \in Nat \ {0}
  <2> QED BY ONLY <2>1, <2>2, <2>3
<1>4. x % w = r
  BY <1>2, <1>3, DivisionUnique
<1> QED BY <1>4 DEF r, y, v

\* Adding a multiple of w leaves the remainder.
LEMMA RemainderOfSum ==
  ASSUME NEW x \in Nat, NEW w \in Nat \ {0}, NEW m \in Nat
  PROVE  (x + w * m) % w = x % w
<1> DEFINE A == x \div w
           r == x % w
<1>1. x = w * A + r /\ A \in Nat /\ r \in 0 .. w - 1
  BY Division
<1> HIDE DEF A, r
<1>2. x + w * m = w * (A + m) + r /\ A + m \in Nat /\ x + w * m \in Nat
  BY <1>1
<1>3. (x + w * m) % w = r
  BY ONLY <1>1, <1>2, DivisionUnique, w \in Nat \ {0}
<1> QED BY <1>3 DEF r

LEMMA SmallRemainder ==
  ASSUME NEW w \in Nat \ {0}, NEW r \in 0 .. w - 1
  PROVE  r % w = r
  BY DivisionUnique, r = w * 0 + r

\* A remainder by w is one of two by 2 * w.
LEMMA HalvesOfRemainder ==
  ASSUME NEW x \in Nat, NEW w \in Nat \ {0}, NEW r \in 0 .. w - 1
  PROVE  x % w = r <=> x % (2 * w) = r \/ x % (2 * w) = r + w
<1> DEFINE q == x \div w
           s == x % w
<1>1. x = w * q + s /\ q \in Nat /\ s \in 0 .. w - 1
  BY Division
<1>2. 2 * w \in Nat \ {0} /\ s \in 0 .. 2 * w - 1 /\ s + w \in 0 .. 2 * w - 1
  BY <1>1
<1> HIDE DEF q, s
<1>3. x % (2 * w) = s \/ x % (2 * w) = s + w
  <2>1. q = 2 * (q \div 2) + (q % 2) /\ q \div 2 \in Nat /\ q % 2 \in 0 .. 1
    BY ONLY <1>1, Division
  <2>2. CASE q % 2 = 0
    <3>1. x = (2 * w) * (q \div 2) + s
      <4>1. q = 2 * (q \div 2)
        BY <2>1, <2>2
      <4>2. w * (2 * (q \div 2)) = (2 * w) * (q \div 2)
        BY <2>1
      <4> QED BY <4>1, <4>2, <1>1
    <3> QED BY ONLY <3>1, <2>1, <1>2, x \in Nat, DivisionUnique
  <2>3. CASE q % 2 = 1
    <3>1. x = (2 * w) * (q \div 2) + (s + w)
      <4>1. q = 2 * (q \div 2) + 1
        BY <2>1, <2>3
      <4>2. w * (2 * (q \div 2) + 1) = (2 * w) * (q \div 2) + w
        BY <2>1
      <4> QED BY <4>1, <4>2, <1>1, <2>1
    <3> QED BY ONLY <3>1, <2>1, <1>2, x \in Nat, DivisionUnique
  <2> QED BY <2>1, <2>2, <2>3
<1>4. s = r <=> x % (2 * w) = r \/ x % (2 * w) = r + w
  BY <1>1, <1>3
<1> QED BY <1>4 DEF s

-----------------------------------------------------------------------------
(* The invariant *)

Buckets == DOMAIN bucket
BucketWidth(b) == Width[bucket[b].depth]

\* A hash value that belongs to a bucket.
Belongs(h, b) == h % BucketWidth(b) = bucket[b].first

HashTypes ==
  /\ depth \in 0 .. MaxDepth
  /\ fresh \in Nat /\ Buckets \subseteq 0 .. fresh - 1
  /\ bucket \in [Buckets -> [entries : Seq(Keys), depth : 0 .. MaxDepth, first : Nat]]
  /\ index \in [Cells -> Buckets]
  /\ entryTable \in [0 .. BucketSize + 1 -> Keys \cup {NoEntry}]
  /\ countEntries \in -1 .. BucketSize
  /\ \A i \in 0 .. countEntries : entryTable[i] \in Keys
  /\ added \subseteq Keys

\* The cells of a bucket are those at its distance from its first one.
CellsOfBuckets ==
  \A b \in Buckets :
    /\ bucket[b].depth <= depth /\ bucket[b].first \in 0 .. BucketWidth(b) - 1
    /\ \A i \in Cells : index[i] = b <=> Belongs(i, b)

EntriesInPlace ==
  \A b \in Buckets :
    /\ Len(bucket[b].entries) <= BucketSize
    /\ \A n \in 1 .. Len(bucket[b].entries) : Belongs(Hash[bucket[b].entries[n]], b)

\* No entry is lost: each is in a bucket or still in hand.
AddedStored ==
  \A k \in Keys : k \in added <=>
    \/ \E i \in 0 .. countEntries : entryTable[i] = k
    \/ \E b \in Buckets : k \in Range(bucket[b].entries)

\* The entries behind the one of the call fit in their buckets, all in one if need be:
\* a bucket is split only with the entry of the call in hand.
RoomForRest ==
  \A i \in 1 .. countEntries : \E b \in Buckets :
    Belongs(Hash[entryTable[i]], b) /\ Len(bucket[b].entries) + countEntries <= BucketSize

HashInv == HashTypes /\ CellsOfBuckets /\ EntriesInPlace /\ AddedStored /\ RoomForRest

\* A lesser power of two divides a greater one.
LEMMA WidthDivides ==
  ASSUME NEW d \in 0 .. MaxDepth, NEW e \in 0 .. MaxDepth, d <= e
  PROVE  /\ Width[d] \in Nat \ {0} /\ Width[e - d] \in Nat \ {0}
         /\ Width[e] = Width[d] * Width[e - d]
<1>1. e - d \in 0 .. MaxDepth /\ d + (e - d) = e /\ e <= MaxDepth
  BY SizesAssumption
<1> HIDE DEF Width
<1>2. Width[d + (e - d)] = Width[d] * Width[e - d]
  BY <1>1, WidthAssumption
<1> QED BY <1>1, <1>2, WidthAssumption

LEMMA WidthDoubles ==
  ASSUME NEW d \in 0 .. MaxDepth - 1
  PROVE  /\ d + 1 \in 0 .. MaxDepth /\ Width[d] \in Nat \ {0}
         /\ Width[d + 1] = 2 * Width[d]
<1>1. d + 1 \in 0 .. MaxDepth /\ d \in 0 .. MaxDepth /\ 1 \in 0 .. MaxDepth /\ MaxDepth >= 1
      /\ d + 1 <= MaxDepth
  BY SizesAssumption
<1>2. Width[d + 1] = Width[d] * Width[1] /\ Width[1] = 2 /\ Width[d] \in Nat \ {0}
  BY <1>1, WidthAssumption
<1> QED BY <1>1, <1>2

\* The bucket that a key's cell points to is the one that its hash value belongs to.
LEMMA CellOfKey ==
  ASSUME HashTypes, CellsOfBuckets, NEW k \in Keys, NEW b \in Buckets
  PROVE  /\ hashFunction2(k) \in Cells
         /\ index[hashFunction2(k)] = b <=> Belongs(Hash[k], b)
<1>1. /\ Hash[k] \in Nat /\ depth \in 0 .. MaxDepth /\ bucket[b].depth \in 0 .. MaxDepth
      /\ bucket[b].depth <= depth
  BY KeysAssumption DEF HashTypes, CellsOfBuckets
<1>2. /\ BucketWidth(b) \in Nat \ {0} /\ Width[depth - bucket[b].depth] \in Nat \ {0}
      /\ index_size = BucketWidth(b) * Width[depth - bucket[b].depth]
  BY ONLY <1>1, WidthDivides DEF BucketWidth, index_size
<1>3. index_size \in Nat \ {0}
  BY ONLY <1>1, WidthAssumption DEF index_size
<1>4. hashFunction2(k) \in Cells
  <2>1. Hash[k] % index_size \in 0 .. index_size - 1
    BY ONLY <1>1, <1>3, Division
  <2> QED BY <2>1 DEF hashFunction2, Cells
<1>5. hashFunction2(k) % BucketWidth(b) = Hash[k] % BucketWidth(b)
  BY ONLY <1>1, <1>2, RemainderOfRemainder DEF hashFunction2
<1> QED BY <1>4, <1>5 DEF CellsOfBuckets, Belongs

LEMMA InvImpliesFound == HashInv => AddedIsFound
<1> SUFFICES ASSUME HashInv, countEntries = -1, NEW k \in Keys
             PROVE  getEntry(k) <=> k \in added
  BY DEF AddedIsFound
<1>1. k \in added <=> \E b \in Buckets : k \in Range(bucket[b].entries)
  BY DEF HashInv, AddedStored
<1>2. hashFunction2(k) \in Cells /\ index[hashFunction2(k)] \in Buckets
  <2>1. 0 \in Cells
    BY WidthAssumption DEF HashInv, HashTypes, Cells, index_size
  <2>2. index[0] \in Buckets
    BY <2>1 DEF HashInv, HashTypes
  <2>3. hashFunction2(k) \in Cells
    BY <2>2, CellOfKey DEF HashInv
  <2> QED BY <2>3 DEF HashInv, HashTypes
<1>3. ASSUME NEW b \in Buckets, k \in Range(bucket[b].entries)
      PROVE  index[hashFunction2(k)] = b
  <2>1. bucket[b].entries \in Seq(Keys)
    BY DEF HashInv, HashTypes
  <2>2. DOMAIN bucket[b].entries = 1 .. Len(bucket[b].entries)
    BY <2>1, LenProperties
  <2>3. PICK n \in 1 .. Len(bucket[b].entries) : bucket[b].entries[n] = k
    BY <1>3, <2>2 DEF Range
  <2>4. Belongs(Hash[k], b)
    BY <2>3 DEF HashInv, EntriesInPlace
  <2> QED BY <2>4, CellOfKey DEF HashInv
<1> QED BY <1>1, <1>2, <1>3 DEF getEntry

-----------------------------------------------------------------------------
(* The steps *)

LEMMA HashInit == Init => HashInv
<1> SUFFICES ASSUME Init PROVE HashInv
  OBVIOUS
<1>1. depth \in 0 .. MaxDepth /\ index_size \in Nat \ {0} /\ 0 \in 0 .. MaxDepth /\ Width[0] = 1
  BY SizesAssumption, WidthAssumption DEF Init, index_size
<1>2. 0 \in Cells
  BY <1>1 DEF Cells
<1> HIDE DEF Width, index_size
<1>3. \A d \in 0 .. MaxDepth, f \in Nat :
        NewBucket(d, f) \in [entries : Seq(Keys), depth : 0 .. MaxDepth, first : Nat]
  BY DEF NewBucket
<1>4. /\ fresh \in Nat /\ Buckets \subseteq 0 .. fresh - 1
      /\ bucket \in [Buckets -> [entries : Seq(Keys), depth : 0 .. MaxDepth, first : Nat]]
      /\ index \in [Cells -> Buckets]
      /\ \A b \in Buckets : bucket[b].entries = <<>>
      /\ CellsOfBuckets
  <2>1. CASE initHashTable
    <3>1. /\ Buckets = {0} /\ bucket[0] = NewBucket(0, 0) /\ fresh = 1
          /\ index = [i \in Cells |-> 0]
      BY <2>1 DEF initHashTable, Buckets
    <3>2. BucketWidth(0) = 1 /\ bucket[0].first = 0 /\ bucket[0].depth = 0
      BY <3>1, <1>1 DEF NewBucket, BucketWidth
    <3>3. \A i \in Cells : i % 1 = 0
      BY <1>1 DEF Cells
    <3>4. CellsOfBuckets
      BY <3>1, <3>2, <3>3, <1>1 DEF CellsOfBuckets, Belongs
    <3>5. bucket \in [Buckets -> [entries : Seq(Keys), depth : 0 .. MaxDepth, first : Nat]]
      BY <2>1, <3>1, <1>1, <1>3 DEF initHashTable
    <3> QED BY <3>1, <3>4, <3>5 DEF NewBucket
  <2>2. CASE initHashTable2
    <3>1. /\ Buckets = Cells /\ fresh = index_size /\ index = [i \in Cells |-> i]
          /\ bucket = [b \in Cells |-> NewBucket(depth, b)]
      BY <2>2 DEF initHashTable2, Buckets
    <3>2. \A b \in Cells : /\ b \in 0 .. index_size - 1 /\ BucketWidth(b) = index_size
                          /\ bucket[b].first = b /\ bucket[b].depth = depth
      BY <3>1 DEF NewBucket, BucketWidth, index_size, Cells
    <3>3. \A i \in Cells : i % index_size = i
      BY ONLY <1>1, SmallRemainder DEF Cells
    <3>4. CellsOfBuckets
      BY <3>1, <3>2, <3>3, <1>1 DEF CellsOfBuckets, Belongs
    <3>5. bucket \in [Buckets -> [entries : Seq(Keys), depth : 0 .. MaxDepth, first : Nat]]
      BY <3>1, <1>1, <1>3 DEF Cells
    <3> QED BY <3>1, <3>4, <3>5, <1>1 DEF NewBucket, Cells
  <2> QED BY <2>1, <2>2 DEF Init
<1>5. HashTypes
  BY <1>1, <1>4, SizesAssumption DEF Init, HashTypes, NoEntries
<1>6. EntriesInPlace /\ RoomForRest
  BY <1>4, SizesAssumption DEF Init, EntriesInPlace, RoomForRest
<1>7. AddedStored
  BY <1>4 DEF Init, AddedStored, Range
<1> QED BY <1>4, <1>5, <1>6, <1>7 DEF HashInv

LEMMA CallKeepsHash ==
  ASSUME HashInv, NEW k \in Keys, addToHashTable(k)
  PROVE  HashInv'
<1>1. /\ countEntries = -1 /\ UNCHANGED tableVars
      /\ entryTable' = [NoEntries EXCEPT ![0] = k] /\ countEntries' = 0
      /\ added' = added \cup {k}
  BY DEF addToHashTable
<1>2. /\ UNCHANGED <<index, bucket, depth, fresh, Buckets, Cells>>
      /\ \A b : BucketWidth(b)' = BucketWidth(b)
      /\ \A h, b : Belongs(h, b)' <=> Belongs(h, b)
  BY <1>1 DEF tableVars, Buckets, Cells, index_size, BucketWidth, Belongs
<1>3. entryTable' \in [0 .. BucketSize + 1 -> Keys \cup {NoEntry}] /\ entryTable'[0] = k
  BY <1>1, SizesAssumption DEF NoEntries
<1>4. HashTypes'
  BY <1>1, <1>2, <1>3, SizesAssumption DEF HashInv, HashTypes
<1>5. CellsOfBuckets' /\ EntriesInPlace' /\ RoomForRest'
  BY <1>1, <1>2 DEF HashInv, CellsOfBuckets, EntriesInPlace, RoomForRest
<1>6. AddedStored'
  BY <1>1, <1>2, <1>3 DEF HashInv, AddedStored
<1> QED BY <1>4, <1>5, <1>6 DEF HashInv

\* The entry at work, and the bucket that it belongs to.
LEMMA TargetTyped ==
  ASSUME HashInv, countEntries # -1
  PROVE  /\ countEntries \in 0 .. BucketSize /\ entryTable[countEntries] \in Keys
         /\ target \in Buckets /\ Belongs(Hash[entryTable[countEntries]], target)
<1>1. countEntries \in 0 .. BucketSize /\ entryTable[countEntries] \in Keys
  BY SizesAssumption DEF HashInv, HashTypes
<1>2. 0 \in Cells
  BY WidthAssumption DEF HashInv, HashTypes, Cells, index_size
<1>3. index[0] \in Buckets
  BY <1>2 DEF HashInv, HashTypes
<1>4. hashFunction2(entryTable[countEntries]) \in Cells
  BY <1>1, <1>3, CellOfKey DEF HashInv
<1>5. target \in Buckets
  BY <1>4 DEF HashInv, HashTypes, target
<1> QED BY <1>1, <1>5, CellOfKey DEF HashInv, target

LEMMA AddKeepsHash == ASSUME HashInv, addToIndexCell PROVE HashInv'
<1> DEFINE b0 == target
           e == entryTable[countEntries]
           c == countEntries
           old == bucket[b0].entries
<1>1. /\ c # -1 /\ ~fullBucket(b0)
      /\ bucket' = [bucket EXCEPT ![b0].entries = Append(old, e)]
      /\ countEntries' = c - 1
      /\ UNCHANGED <<index, depth, fresh, entryTable, added>>
  BY DEF addToIndexCell
<1>2. c \in 0 .. BucketSize /\ e \in Keys /\ b0 \in Buckets /\ Belongs(Hash[e], b0)
  BY <1>1, TargetTyped
<1>3. /\ old \in Seq(Keys) /\ Len(old) \in Nat /\ Len(old) < BucketSize
      /\ bucket \in [Buckets -> [entries : Seq(Keys), depth : 0 .. MaxDepth, first : Nat]]
  <2>1. old \in Seq(Keys)
        /\ bucket \in [Buckets -> [entries : Seq(Keys), depth : 0 .. MaxDepth, first : Nat]]
    BY <1>2 DEF HashInv, HashTypes
  <2> QED BY <2>1, <1>1, <1>2, LenProperties, SizesAssumption DEF fullBucket
<1> HIDE DEF b0, e, c, old
<1>4. /\ Append(old, e) \in Seq(Keys) /\ Len(Append(old, e)) = Len(old) + 1
      /\ \A n \in 1 .. Len(old) : Append(old, e)[n] = old[n]
      /\ Append(old, e)[Len(old) + 1] = e
  BY ONLY <1>2, <1>3, AppendProperties
<1>5. /\ Buckets' = Buckets
      /\ bucket' \in [Buckets -> [entries : Seq(Keys), depth : 0 .. MaxDepth, first : Nat]]
      /\ bucket'[b0].entries = Append(old, e)
      /\ \A b \in Buckets : bucket'[b].depth = bucket[b].depth /\ bucket'[b].first = bucket[b].first
      /\ \A b \in Buckets \ {b0} : bucket'[b].entries = bucket[b].entries
  BY ONLY <1>1, <1>2, <1>3, <1>4 DEF Buckets
<1>6. /\ Cells' = Cells
      /\ \A h, b : b \in Buckets =>
           (Belongs(h, b) <=> h % Width[bucket'[b].depth] = bucket'[b].first)
  BY <1>1, <1>5 DEF Cells, index_size, BucketWidth, Belongs
<1>7. HashTypes'
  <2>1. c - 1 \in -1 .. BucketSize /\ \A i \in 0 .. c - 1 : i \in 0 .. c
    BY <1>2, SizesAssumption
  <2>2. \A i \in 0 .. c - 1 : entryTable[i] \in Keys
    BY <2>1 DEF HashInv, HashTypes, c
  <2> QED BY <2>1, <2>2, <1>1, <1>5, <1>6 DEF HashInv, HashTypes
<1>8. CellsOfBuckets'
  <2>1. CellsOfBuckets
    BY DEF HashInv
  <2>2. UNCHANGED <<index, depth>>
    BY <1>1
  <2> QED BY ONLY SMTT(30), <2>1, <2>2, <1>5, <1>6 DEF CellsOfBuckets, Belongs, BucketWidth
<1>10. EntriesInPlace'
  <2> SUFFICES ASSUME NEW b \in Buckets
               PROVE  /\ Len(bucket'[b].entries) <= BucketSize
                      /\ \A n \in 1 .. Len(bucket'[b].entries) :
                           Belongs(Hash[bucket'[b].entries[n]], b)
    BY <1>5, <1>6 DEF EntriesInPlace, Belongs, BucketWidth
  <2>1. CASE b = b0
    <3>1. Len(bucket'[b].entries) <= BucketSize
      BY <2>1, <1>3, <1>4, <1>5, SizesAssumption
    <3>2. ASSUME NEW n \in 1 .. Len(bucket'[b].entries)
          PROVE  bucket'[b].entries[n] \in Keys /\ Belongs(Hash[bucket'[b].entries[n]], b)
      <4>1. CASE n = Len(old) + 1
        BY <4>1, <2>1, <1>2, <1>4, <1>5
      <4>2. CASE n \in 1 .. Len(old)
        <5>1. bucket'[b].entries[n] = old[n] /\ old[n] \in Keys
          BY <4>2, <2>1, <1>3, <1>4, <1>5, ElementOfSeq
        <5>2. Belongs(Hash[old[n]], b)
          BY <4>2, <2>1 DEF HashInv, EntriesInPlace, old
        <5> QED BY <5>1, <5>2
      <4> QED BY <4>1, <4>2, <3>2, <2>1, <1>3, <1>4, <1>5
    <3> QED BY <3>1, <3>2
  <2>2. CASE b # b0
    <3>1. bucket[b].entries \in Seq(Keys)
      BY DEF HashInv, HashTypes
    <3>2. \A n \in 1 .. Len(bucket[b].entries) :
            bucket[b].entries[n] \in Keys /\ Belongs(Hash[bucket[b].entries[n]], b)
      BY <3>1, ElementOfSeq DEF HashInv, EntriesInPlace
    <3> QED BY <2>2, <3>2, <1>5 DEF HashInv, EntriesInPlace
  <2> QED BY <2>1, <2>2
<1>11. AddedStored'
  <2>1. Range(Append(old, e)) = Range(old) \cup {e}
    <3>1. DOMAIN old = 1 .. Len(old) /\ DOMAIN Append(old, e) = 1 .. Len(old) + 1
      BY ONLY <1>3, <1>4, LenProperties
    <3>2. Range(Append(old, e)) \subseteq Range(old) \cup {e}
      <4> SUFFICES ASSUME NEW n \in 1 .. Len(old) + 1
                   PROVE  Append(old, e)[n] \in Range(old) \cup {e}
        BY ONLY <3>1 DEF Range
      <4>1. n = Len(old) + 1 \/ n \in 1 .. Len(old)
        BY ONLY <1>3, n \in 1 .. Len(old) + 1
      <4> QED BY ONLY <4>1, <3>1, <1>4 DEF Range
    <3>3. Range(old) \subseteq Range(Append(old, e))
      <4> SUFFICES ASSUME NEW n \in 1 .. Len(old) PROVE old[n] \in Range(Append(old, e))
        BY ONLY <3>1 DEF Range
      <4>1. n \in 1 .. Len(old) + 1
        BY ONLY <1>3, n \in 1 .. Len(old)
      <4> QED BY ONLY <4>1, <3>1, <1>4 DEF Range
    <3>4. e \in Range(Append(old, e))
      <4>1. Len(old) + 1 \in 1 .. Len(old) + 1
        BY ONLY <1>3
      <4> QED BY ONLY <4>1, <3>1, <1>4 DEF Range
    <3> QED BY ONLY <3>2, <3>3, <3>4
  <2>2. Range(bucket'[b0].entries) = Range(bucket[b0].entries) \cup {e}
    BY <2>1, <1>5 DEF old
  <2>3. \A i : i \in 0 .. c <=> i \in 0 .. c - 1 \/ i = c
    BY <1>2
  <2> SUFFICES ASSUME NEW k \in Keys
               PROVE  k \in added <=> \/ \E i \in 0 .. c - 1 : entryTable[i] = k
                                     \/ \E b \in Buckets : k \in Range(bucket'[b].entries)
    BY <1>1, <1>5 DEF AddedStored
  <2>4. k \in added <=> \/ \E i \in 0 .. c : entryTable[i] = k
                       \/ \E b \in Buckets : k \in Range(bucket[b].entries)
    BY DEF HashInv, AddedStored, c
  <2>5. (\E i \in 0 .. c : entryTable[i] = k) <=> (\E i \in 0 .. c - 1 : entryTable[i] = k) \/ k = e
    BY <2>3, <1>2 DEF e, c
  <2>6. (\E b \in Buckets : k \in Range(bucket'[b].entries))
          <=> (\E b \in Buckets : k \in Range(bucket[b].entries)) \/ k = e
    BY <2>2, <1>2, <1>5
  <2> QED BY <2>4, <2>5, <2>6
<1>12. RoomForRest'
  <2> SUFFICES ASSUME NEW i \in 1 .. c - 1
               PROVE  \E b \in Buckets : /\ Belongs(Hash[entryTable[i]], b)
                                         /\ Len(bucket'[b].entries) + (c - 1) <= BucketSize
    BY <1>1, <1>5, <1>6 DEF RoomForRest, Belongs, BucketWidth
  <2>1. i \in 1 .. c /\ entryTable[i] \in Keys
    BY <1>2 DEF HashInv, HashTypes, c
  <2>2. PICK b \in Buckets : /\ Belongs(Hash[entryTable[i]], b)
                             /\ Len(bucket[b].entries) + c <= BucketSize
    BY <2>1 DEF HashInv, RoomForRest, c
  <2>3. Len(bucket[b].entries) \in Nat
    BY LenProperties DEF HashInv, HashTypes
  <2>4. Len(bucket'[b].entries) <= Len(bucket[b].entries) + 1 /\ Len(bucket'[b].entries) \in Nat
    <3>1. CASE b = b0
      BY <3>1, <1>3, <1>4, <1>5 DEF old
    <3>2. CASE b # b0
      BY <3>2, <2>3, <1>5
    <3> QED BY <3>1, <3>2
  <2>5. Len(bucket'[b].entries) + (c - 1) <= BucketSize
    BY ONLY SMTT(30), <2>2, <2>3, <2>4, <1>2, SizesAssumption
  <2> QED BY <2>2, <2>5
<1> QED BY <1>7, <1>8, <1>10, <1>11, <1>12 DEF HashInv

\* The new half of the directory repeats the old one.
LEMMA ExpandKeepsHash == ASSUME HashInv, expandHash PROVE HashInv'
<1> DEFINE z == index_size
<1>1. /\ depth < MaxDepth /\ depth' = depth + 1
      /\ index' = [i \in 0 .. 2 * z - 1 |-> IF i < z THEN index[i] ELSE index[i - z]]
      /\ UNCHANGED <<bucket, fresh, entryTable, countEntries, added>>
  BY DEF expandHash
<1>2. depth \in 0 .. MaxDepth - 1 /\ MaxDepth \in Nat
  BY <1>1, SizesAssumption DEF HashInv, HashTypes
<1>3. /\ depth + 1 \in 0 .. MaxDepth /\ z \in Nat \ {0} /\ index_size' = 2 * z
  BY ONLY <1>1, <1>2, WidthDoubles DEF index_size
<1>4. Cells = 0 .. z - 1 /\ Cells' = 0 .. 2 * z - 1
  BY <1>3 DEF Cells
<1>5. index \in [0 .. z - 1 -> Buckets]
  BY <1>4 DEF HashInv, HashTypes
<1> HIDE DEF z
<1>6. \A i \in 0 .. 2 * z - 1 :
        \/ i < z /\ i \in 0 .. z - 1
        \/ i >= z /\ i - z \in 0 .. z - 1
  BY ONLY <1>3
<1>7. index' \in [0 .. 2 * z - 1 -> Buckets]
  <2>1. \A i \in 0 .. 2 * z - 1 : (IF i < z THEN index[i] ELSE index[i - z]) \in Buckets
    BY ONLY <1>3, <1>5, <1>6
  <2> QED BY ONLY <1>1, <2>1
<1>8. Buckets' = Buckets
  BY <1>1 DEF Buckets
<1>9. HashTypes'
  BY <1>1, <1>3, <1>4, <1>7, <1>8 DEF HashInv, HashTypes
<1>10. CellsOfBuckets'
  <2> SUFFICES ASSUME NEW b \in Buckets
               PROVE  /\ bucket[b].depth <= depth + 1
                      /\ bucket[b].first \in 0 .. BucketWidth(b) - 1
                      /\ \A i \in 0 .. 2 * z - 1 : index'[i] = b <=> i % BucketWidth(b) = bucket[b].first
    BY <1>1, <1>4, <1>8 DEF CellsOfBuckets, BucketWidth, Belongs
  <2>1. /\ bucket[b].depth \in 0 .. MaxDepth /\ bucket[b].depth <= depth
        /\ bucket[b].first \in 0 .. BucketWidth(b) - 1
        /\ \A i \in 0 .. z - 1 : index[i] = b <=> i % BucketWidth(b) = bucket[b].first
    BY <1>4 DEF HashInv, HashTypes, CellsOfBuckets, Belongs
  <2> DEFINE m == Width[depth - bucket[b].depth]
             w == BucketWidth(b)
  <2>2. w \in Nat \ {0} /\ m \in Nat \ {0} /\ z = w * m
    <3>1. depth \in 0 .. MaxDepth
      BY <1>2
    <3> QED BY ONLY <3>1, <2>1, WidthDivides DEF BucketWidth, z, index_size
  <2> HIDE DEF m, w
  <2>3. ASSUME NEW i \in 0 .. 2 * z - 1 PROVE index'[i] = b <=> i % w = bucket[b].first
    <3>1. CASE i < z
      <4>1. i \in 0 .. z - 1
        BY ONLY <3>1, <1>3, <1>6, i \in 0 .. 2 * z - 1
      <4>2. index'[i] = index[i]
        BY ONLY <3>1, <1>1, i \in 0 .. 2 * z - 1
      <4> QED BY <4>1, <4>2, <2>1 DEF w
    <3>2. CASE i >= z
      <4>1. i - z \in 0 .. z - 1 /\ index'[i] = index[i - z] /\ i - z \in Nat
        BY <3>2, <1>1, <1>3, <1>6
      <4>2. (i - z) % w = i % w
        <5>1. i = (i - z) + w * m
          BY ONLY <2>2, <1>3, i \in 0 .. 2 * z - 1
        <5>2. ((i - z) + w * m) % w = (i - z) % w
          BY ONLY <4>1, <2>2, RemainderOfSum
        <5> QED BY <5>1, <5>2
      <4>3. index[i - z] = b <=> (i - z) % w = bucket[b].first
        BY <4>1, <2>1 DEF w
      <4> QED BY <4>1, <4>2, <4>3
    <3> QED BY <3>1, <3>2, <1>3
  <2> QED BY <2>1, <2>3, <1>2 DEF w
<1>11. EntriesInPlace' /\ AddedStored' /\ RoomForRest'
  BY <1>1, <1>8 DEF HashInv, EntriesInPlace, AddedStored, RoomForRest, Belongs, BucketWidth
<1> QED BY <1>9, <1>10, <1>11 DEF HashInv

\* A bucket is split only for the entry of the call: there is room for the others.
LEMMA SplitOfFirst ==
  ASSUME HashInv, countEntries # -1, fullBucket(target)
  PROVE  countEntries = 0
<1> SUFFICES ASSUME countEntries # 0 PROVE FALSE
  OBVIOUS
<1>1. /\ countEntries \in 1 .. BucketSize /\ entryTable[countEntries] \in Keys
  BY TargetTyped, SizesAssumption
<1>2. PICK b \in Buckets : /\ Belongs(Hash[entryTable[countEntries]], b)
                           /\ Len(bucket[b].entries) + countEntries <= BucketSize
  BY <1>1 DEF HashInv, RoomForRest
<1>3. b = target
  BY <1>1, <1>2, CellOfKey DEF HashInv, target
<1>4. Len(bucket[b].entries) \in Nat
  BY LenProperties DEF HashInv, HashTypes
<1> QED BY <1>1, <1>2, <1>3, <1>4, SizesAssumption DEF fullBucket

\* The cells that the loop of spiltBucket visits are those of the two new buckets.
LEMMA CellsFromIs ==
  ASSUME NEW w \in Nat \ {0}, NEW m \in Nat \ {0}, NEW first \in 0 .. w - 1,
         NEW i \in Nat, index_size = (2 * w) * m, i < index_size
  PROVE  /\ i \in CellsFrom(first, 2 * w) <=> i % (2 * w) = first
         /\ i - w \in CellsFrom(first, 2 * w) <=> i % (2 * w) = first + w
<1> DEFINE v == 2 * w
           z == index_size
<1>1. v \in Nat \ {0} /\ z = v * m /\ z \in Nat /\ first \in 0 .. v - 1 /\ first + w \in 0 .. v - 1
  OBVIOUS
<1>2. Cells = 0 .. z - 1
  BY DEF Cells
<1> HIDE DEF z
<1>3. \A j : j \in CellsFrom(first, v) <=>
        /\ j \in 0 .. z - 1 /\ j >= first /\ (j - first) % v = 0
        /\ (j = first \/ j + 1 < z)
  BY <1>2 DEF CellsFrom, z
<1>4. ASSUME NEW j \in Nat, j >= first
      PROVE  (j - first) % v = 0 <=> j % v = first
  <2>1. ASSUME (j - first) % v = 0 PROVE j % v = first
    <3>1. j - first = v * ((j - first) \div v) + 0 /\ (j - first) \div v \in Nat
      BY ONLY <2>1, <1>1, <1>4, j - first \in Nat, Division
    <3> DEFINE q == (j - first) \div v
    <3>a. v * q \in Nat
      BY ONLY <3>1, <1>1
    <3>2. j = v * q + first
      BY ONLY <3>1, <3>a, <1>1, j \in Nat
    <3> QED BY ONLY <3>1, <3>2, <1>1, j \in Nat, DivisionUnique
  <2>2. ASSUME j % v = first PROVE (j - first) % v = 0
    <3>1. j = v * (j \div v) + first /\ j \div v \in Nat
      BY ONLY <2>2, <1>1, j \in Nat, Division
    <3>2. j - first = v * (j \div v) + 0 /\ j - first \in Nat /\ 0 \in 0 .. v - 1
      BY <3>1, <1>1, <1>4
    <3> QED BY ONLY <3>1, <3>2, <1>1, DivisionUnique
  <2> QED BY <2>1, <2>2
\* A low cell has a high one behind it.
<1>5. ASSUME NEW j \in Nat, j < z, j % v = first
      PROVE  j >= first /\ j + w < z
  <2> DEFINE q == j \div v
  <2>1. j = v * q + first /\ q \in Nat
    BY ONLY <1>1, <1>5, j \in Nat, Division
  <2> HIDE DEF q
  <2>2. q < m
    <3> SUFFICES ASSUME q >= m PROVE FALSE
      BY <2>1
    <3>1. v * q >= v * m
      BY ONLY q >= m, <2>1, <1>1, m \in Nat \ {0}
    <3> QED BY <3>1, <2>1, <1>1, <1>5
  <2>3. v * q + v <= v * m
    <3>1. q + 1 <= m
      BY <2>1, <2>2
    <3>2. v * (q + 1) <= v * m
      BY ONLY <3>1, <2>1, <1>1, m \in Nat \ {0}
    <3>3. v * (q + 1) = v * q + v
      BY ONLY <2>1, <1>1
    <3> QED BY <3>2, <3>3
  <2>4. v * q \in Nat
    BY ONLY <2>1, <1>1
  <2>5. j >= first
    BY ONLY <2>1, <2>4, first \in 0 .. w - 1, w \in Nat \ {0}
  <2>6. j + w < v * q + v
    BY ONLY <2>1, <2>4, first \in 0 .. w - 1, w \in Nat \ {0} DEF v
  <2> QED BY ONLY <2>3, <2>4, <2>5, <2>6, <1>1, <2>1, w \in Nat \ {0}
<1>6. i < z
  BY DEF z
<1> HIDE DEF v
<1>7. i \in CellsFrom(first, v) <=> i % v = first
  BY ONLY <1>3, <1>4, <1>5, <1>6, <1>1, w \in Nat \ {0}, i \in Nat
<1>8. ASSUME i - w \in CellsFrom(first, v) PROVE i % v = first + w
  <2>1. i - w \in Nat /\ i - w >= first /\ (i - w) % v = first
    BY ONLY <1>3, <1>4, <1>8, <1>1
  <2>2. i - w = v * ((i - w) \div v) + first /\ (i - w) \div v \in Nat
    BY ONLY <2>1, <1>1, Division
  <2>3. i = v * ((i - w) \div v) + (first + w)
    BY <2>1, <2>2, <1>1
  <2> QED BY ONLY <2>2, <2>3, <1>1, i \in Nat, DivisionUnique
<1>9. ASSUME i % v = first + w PROVE i - w \in CellsFrom(first, v)
  <2>1. i = v * (i \div v) + (first + w) /\ i \div v \in Nat
    BY ONLY <1>9, <1>1, i \in Nat, Division
  <2>2. v * (i \div v) \in Nat
    BY ONLY <2>1, <1>1
  <2>3. i - w = v * (i \div v) + first /\ i - w \in Nat /\ i - w >= first
    BY ONLY <2>1, <2>2, first \in 0 .. w - 1, w \in Nat \ {0}
  <2>4. (i - w) % v = first
    BY ONLY <2>1, <2>3, <1>1, DivisionUnique
  <2>5. (i - w) % v = first <=> (i - w - first) % v = 0
    BY ONLY <2>3, <1>4
  <2>6. i - w + 1 < z \/ i - w = first
    BY ONLY <2>3, <1>6, <1>1, w \in Nat \ {0}, i \in Nat
  <2>7. i - w \in 0 .. z - 1
    BY ONLY <2>3, <1>6, <1>1, w \in Nat \ {0}, i \in Nat
  <2> QED BY ONLY <1>3, <2>3, <2>4, <2>5, <2>6, <2>7
<1> QED BY <1>7, <1>8, <1>9 DEF v

LEMMA SplitKeepsHash == ASSUME HashInv, spiltBucket PROVE HashInv'
<1> DEFINE b0 == target
           d == bucket[b0].depth
           first == bucket[b0].first
           w == Width[d]
           old == bucket[b0].entries
           Type == [entries : Seq(Keys), depth : 0 .. MaxDepth, first : Nat]
<1>1. /\ countEntries # -1 /\ fullBucket(b0) /\ d < depth
      /\ index' = Rewired(b0, fresh, fresh + 1)
      /\ bucket' = [b \in (Buckets \ {b0}) \cup {fresh, fresh + 1} |->
            IF b = fresh THEN NewBucket(d + 1, first)
            ELSE IF b = fresh + 1 THEN NewBucket(d + 1, first + Width[d])
            ELSE bucket[b]]
      /\ fresh' = fresh + 2
      /\ entryTable' = Refilled(b0) /\ countEntries' = Taken
      /\ UNCHANGED <<depth, added>>
  BY DEF spiltBucket, Buckets
<1>2. countEntries = 0 /\ b0 \in Buckets /\ BucketSize \in Nat \ {0}
  BY <1>1, SplitOfFirst, TargetTyped, SizesAssumption
<1>3. /\ bucket \in [Buckets -> Type] /\ fresh \in Nat /\ Buckets \subseteq 0 .. fresh - 1
      /\ depth \in 0 .. MaxDepth /\ MaxDepth \in Nat /\ index \in [Cells -> Buckets]
  BY SizesAssumption DEF HashInv, HashTypes
<1>4. /\ d \in 0 .. MaxDepth - 1 /\ d + 1 \in 0 .. MaxDepth /\ d + 1 <= depth
      /\ w \in Nat \ {0} /\ Width[d + 1] = 2 * w
  <2>1. d \in 0 .. MaxDepth - 1 /\ d + 1 <= depth
    BY <1>1, <1>2, <1>3
  <2> HIDE DEF d
  <2> QED BY ONLY <2>1, WidthDoubles
<1>5. first \in 0 .. w - 1 /\ first \in Nat
  BY <1>2, <1>3 DEF HashInv, CellsOfBuckets, BucketWidth
<1>6. old \in Seq(Keys) /\ Len(old) = BucketSize /\ DOMAIN old = 1 .. BucketSize
  <2>1. old \in Seq(Keys) /\ Len(old) >= BucketSize /\ Len(old) <= BucketSize
    BY <1>1, <1>2, <1>3 DEF HashInv, EntriesInPlace, fullBucket
  <2> QED BY ONLY <2>1, <1>2, LenProperties
<1> HIDE DEF Type, old, w, first, d, b0
<1>7. \A i \in Cells :
        /\ i \in Nat
        /\ i \in CellsFrom(first, 2 * w) <=> i % (2 * w) = first
        /\ i - w \in CellsFrom(first, 2 * w) <=> i % (2 * w) = first + w
  <2>1. /\ Width[depth - (d + 1)] \in Nat \ {0}
        /\ index_size = (2 * w) * Width[depth - (d + 1)]
    BY ONLY <1>3, <1>4, WidthDivides DEF index_size
  <2>2. index_size \in Nat
    BY ONLY <1>3, WidthAssumption DEF index_size
  <2>3. \A i \in Cells : i \in Nat /\ i < index_size
    BY ONLY <2>2 DEF Cells
  <2> DEFINE m == Width[depth - (d + 1)]
  <2>4. m \in Nat \ {0} /\ index_size = (2 * w) * m
    BY <2>1
  <2> HIDE DEF m
  <2>5. ASSUME NEW i \in Cells
        PROVE  /\ i \in CellsFrom(first, 2 * w) <=> i % (2 * w) = first
               /\ i - w \in CellsFrom(first, 2 * w) <=> i % (2 * w) = first + w
    <3>1. i \in Nat /\ i < index_size
      BY <2>3
    <3> QED BY ONLY <2>4, <3>1, <1>4, <1>5, CellsFromIs
  <2> QED BY ONLY <2>3, <2>5
<1>8. /\ Cells' = Cells /\ DOMAIN index' = Cells /\ index' = [i \in Cells |-> index'[i]]
      /\ \A i \in Cells :
           /\ i % (2 * w) = first => index'[i] = fresh
           /\ i % (2 * w) = first + w => index'[i] = fresh + 1
           /\ i % (2 * w) # first /\ i % (2 * w) # first + w => index'[i] = index[i]
  <2>1. index' = [i \in Cells |-> IF i \in CellsFrom(first, 2 * w) THEN fresh
                                 ELSE IF i - w \in CellsFrom(first, 2 * w) THEN fresh + 1
                                 ELSE index[i]]
    BY <1>1 DEF Rewired, first, w, d
  <2>2. Cells' = Cells
    BY <1>1 DEF Cells, index_size
  <2>3. first + w # first
    BY ONLY <1>4, <1>5
  <2> QED BY ONLY <2>1, <2>2, <2>3, <1>7
<1>9. /\ fresh \notin Buckets /\ fresh + 1 \notin Buckets /\ fresh # fresh + 1
      /\ Buckets' = (Buckets \ {b0}) \cup {fresh, fresh + 1}
      /\ bucket'[fresh] = NewBucket(d + 1, first)
      /\ bucket'[fresh + 1] = NewBucket(d + 1, first + w)
      /\ \A b \in Buckets \ {b0} : bucket'[b] = bucket[b]
      /\ bucket' = [b \in Buckets' |-> bucket'[b]]
  <2>1. fresh \notin Buckets /\ fresh + 1 \notin Buckets /\ fresh # fresh + 1
    BY ONLY <1>3
  <2>2. bucket' = [b \in (Buckets \ {b0}) \cup {fresh, fresh + 1} |->
            IF b = fresh THEN NewBucket(d + 1, first)
            ELSE IF b = fresh + 1 THEN NewBucket(d + 1, first + w)
            ELSE bucket[b]]
    BY <1>1 DEF w
  <2>3. Buckets' = DOMAIN bucket'
    BY DEF Buckets
  <2> QED BY ONLY <2>1, <2>2, <2>3
<1>10. /\ countEntries' = BucketSize
       /\ entryTable' \in [0 .. BucketSize + 1 -> Keys \cup {NoEntry}]
       /\ entryTable'[0] = entryTable[0] /\ entryTable[0] \in Keys
       /\ \A i \in 1 .. BucketSize : entryTable'[i] = old[i] /\ old[i] \in Keys
  <2>1. Taken = BucketSize
    BY <1>2 DEF Taken
  <2>2. entryTable' = [i \in 0 .. BucketSize + 1 |->
                         IF i \in 1 .. BucketSize THEN old[i]
                         ELSE IF i = BucketSize + 1 THEN entryTable[0] ELSE entryTable[i]]
    <3>1. entryTable' = [i \in 0 .. BucketSize + 1 |->
             IF i \in 0 + 1 .. 0 + BucketSize THEN old[i - 0]
             ELSE IF i = 0 + BucketSize + 1 THEN entryTable[0] ELSE entryTable[i]]
      BY <1>1, <1>2, <2>1 DEF Refilled, old
    <3> QED BY ONLY <3>1, <1>2
  <2>3. entryTable[0] \in Keys /\ entryTable \in [0 .. BucketSize + 1 -> Keys \cup {NoEntry}]
    BY <1>2 DEF HashInv, HashTypes
  <2>4. \A i \in 1 .. BucketSize : old[i] \in Keys
    BY ONLY <1>6, ElementOfSeq
  <2>5. 0 \notin 1 .. BucketSize /\ 0 # BucketSize + 1 /\ 0 \in 0 .. BucketSize + 1
        /\ \A i \in 1 .. BucketSize : i \in 0 .. BucketSize + 1
    BY ONLY <1>2
  <2>6. entryTable' \in [0 .. BucketSize + 1 -> Keys \cup {NoEntry}]
    BY ONLY <2>2, <2>3, <2>4
  <2>7. countEntries' = BucketSize
    BY ONLY <1>1, <2>1
  <2> QED BY ONLY <2>2, <2>3, <2>4, <2>5, <2>6, <2>7
\* The numbers that belonged to the old bucket are those that belong to a new one.
<1>11. \A h \in Nat : Belongs(h, b0) <=> h % (2 * w) = first \/ h % (2 * w) = first + w
  <2>1. \A h : Belongs(h, b0) <=> h % w = first
    BY DEF Belongs, BucketWidth, w, d, first
  <2> DEFINE Halves(x, v, r) == x % v = r <=> x % (2 * v) = r \/ x % (2 * v) = r + v
  <2>a. \A x \in Nat : \A v \in Nat \ {0} : \A r \in 0 .. v - 1 : Halves(x, v, r)
    BY HalvesOfRemainder
  <2> HIDE DEF Halves
  <2>b. \A h \in Nat : Halves(h, w, first)
    BY ONLY <2>a, <1>4, <1>5
  <2>2. \A h \in Nat : h % w = first <=> h % (2 * w) = first \/ h % (2 * w) = first + w
    BY <2>b DEF Halves
  <2> QED BY ONLY <2>1, <2>2
<1>12. /\ NewBucket(d + 1, first) \in Type /\ NewBucket(d + 1, first + w) \in Type
       /\ \A f : /\ NewBucket(d + 1, f).entries = <<>> /\ NewBucket(d + 1, f).depth = d + 1
                 /\ NewBucket(d + 1, f).first = f
  <2>1. first + w \in Nat
    BY ONLY <1>4, <1>5
  <2> QED BY ONLY <2>1, <1>4, <1>5 DEF NewBucket, Type
<1>13. HashTypes'
  <2>1. bucket' \in [Buckets' -> Type]
    BY ONLY <1>3, <1>9, <1>12
  <2>2. fresh' \in Nat /\ Buckets' \subseteq 0 .. fresh' - 1
    <3>1. fresh' = fresh + 2
      BY <1>1
    <3>2. \A b \in Buckets : b \in 0 .. fresh + 1
      BY ONLY <1>3
    <3>3. fresh + 2 \in Nat /\ fresh + 2 - 1 = fresh + 1
          /\ fresh \in 0 .. fresh + 1 /\ fresh + 1 \in 0 .. fresh + 1
      BY ONLY <1>3
    <3>4. \A b \in Buckets' : b \in Buckets \/ b = fresh \/ b = fresh + 1
      BY <1>9
    <3> QED BY ONLY <3>1, <3>2, <3>3, <3>4
  <2>3. index' \in [Cells' -> Buckets']
    <3>1. ASSUME NEW i \in Cells PROVE index'[i] \in Buckets'
      <4>1. CASE i % (2 * w) = first \/ i % (2 * w) = first + w
        BY ONLY <4>1, <1>8, <1>9, i \in Cells
      <4>2. CASE i % (2 * w) # first /\ i % (2 * w) # first + w
        <5>1. index'[i] = index[i] /\ index[i] \in Buckets
          BY ONLY <4>2, <1>3, <1>8, i \in Cells
        <5>2. index[i] # b0
          BY <4>2, <1>2, <1>7, <1>11 DEF HashInv, CellsOfBuckets
        <5> QED BY <5>1, <5>2, <1>9
      <4> QED BY <4>1, <4>2
    <3> QED BY ONLY <3>1, <1>8
  <2>4. \A i \in 0 .. BucketSize : entryTable'[i] \in Keys
    <3>1. \A i \in 0 .. BucketSize : i = 0 \/ i \in 1 .. BucketSize
      BY ONLY <1>2
    <3> QED BY ONLY <3>1, <1>10
  <2>5. depth' \in 0 .. MaxDepth /\ added' \subseteq Keys
    BY <1>1 DEF HashInv, HashTypes
  <2>6. BucketSize \in -1 .. BucketSize
    BY <1>2
  <2> QED BY ONLY <2>1, <2>2, <2>3, <2>4, <2>5, <2>6, <1>10 DEF HashTypes, Type
<1>14. CellsOfBuckets'
  <2> SUFFICES ASSUME NEW b \in Buckets'
               PROVE  /\ bucket'[b].depth <= depth
                      /\ bucket'[b].first \in 0 .. Width[bucket'[b].depth] - 1
                      /\ \A i \in Cells : index'[i] = b <=> i % Width[bucket'[b].depth] = bucket'[b].first
    BY ZenonT(40), <1>1, <1>8 DEF CellsOfBuckets, BucketWidth, Belongs
  <2>1. CASE b = fresh
    <3>1. bucket'[b].depth = d + 1 /\ bucket'[b].first = first
      BY ONLY <2>1, <1>9, <1>12
    <3>2. first \in 0 .. 2 * w - 1 /\ first # first + w
      BY ONLY <1>4, <1>5
    <3>3. \A i \in Cells : index'[i] = fresh <=> i % (2 * w) = first
      BY ONLY <1>3, <1>8, <1>9, <3>2
    <3> QED BY ONLY <2>1, <3>1, <3>2, <3>3, <1>4
  <2>2. CASE b = fresh + 1
    <3>1. bucket'[b].depth = d + 1 /\ bucket'[b].first = first + w
      BY ONLY <2>2, <1>9, <1>12
    <3>2. first + w \in 0 .. 2 * w - 1 /\ first # first + w
      BY ONLY <1>4, <1>5
    <3>3. \A i \in Cells : index'[i] = fresh + 1 <=> i % (2 * w) = first + w
      BY ONLY <1>3, <1>8, <1>9, <3>2
    <3> QED BY ONLY <2>2, <3>1, <3>2, <3>3, <1>4
  <2>3. CASE b \in Buckets \ {b0}
    <3>1. bucket'[b] = bucket[b]
      BY <2>3, <1>9
    <3>2. /\ bucket[b].depth <= depth /\ bucket[b].first \in 0 .. BucketWidth(b) - 1
          /\ \A i \in Cells : index[i] = b <=> i % BucketWidth(b) = bucket[b].first
      BY <2>3 DEF HashInv, CellsOfBuckets, Belongs
    <3>3. ASSUME NEW i \in Cells PROVE index'[i] = b <=> index[i] = b
      <4>1. CASE i % (2 * w) = first \/ i % (2 * w) = first + w
        <5>1. index[i] = b0
          BY <4>1, <1>2, <1>7, <1>11 DEF HashInv, CellsOfBuckets
        <5>2. index'[i] \in {fresh, fresh + 1}
          BY <4>1, <1>8
        <5> QED BY <5>1, <5>2, <2>3, <1>9
      <4>2. CASE i % (2 * w) # first /\ i % (2 * w) # first + w
        BY <4>2, <1>8
      <4> QED BY <4>1, <4>2
    <3> QED BY <3>1, <3>2, <3>3 DEF BucketWidth
  <2> QED BY <2>1, <2>2, <2>3, <1>9
<1>15. EntriesInPlace'
  <2> SUFFICES ASSUME NEW b \in Buckets'
               PROVE  /\ Len(bucket'[b].entries) <= BucketSize
                      /\ \A n \in 1 .. Len(bucket'[b].entries) :
                           Hash[bucket'[b].entries[n]] % Width[bucket'[b].depth] = bucket'[b].first
    BY DEF EntriesInPlace, BucketWidth, Belongs
  <2>1. CASE b \in {fresh, fresh + 1}
    <3>1. bucket'[b].entries = <<>>
      BY ONLY <2>1, <1>9, <1>12
    <3> QED BY <3>1, <1>2
  <2>2. CASE b \in Buckets \ {b0}
    BY <2>2, <1>9 DEF HashInv, EntriesInPlace, BucketWidth, Belongs
  <2> QED BY <2>1, <2>2, <1>9
<1>16. AddedStored'
  <2> SUFFICES ASSUME NEW k \in Keys
               PROVE  k \in added <=> \/ \E i \in 0 .. BucketSize : entryTable'[i] = k
                                     \/ \E b \in Buckets' : k \in Range(bucket'[b].entries)
    BY <1>1, <1>10 DEF AddedStored
  <2>1. k \in added <=> \/ entryTable[0] = k
                       \/ \E b \in Buckets : k \in Range(bucket[b].entries)
    <3>1. \A i : i \in 0 .. 0 <=> i = 0
      OBVIOUS
    <3> QED BY <3>1, <1>2 DEF HashInv, AddedStored
  <2>2. (\E i \in 0 .. BucketSize : entryTable'[i] = k)
          <=> entryTable[0] = k \/ k \in Range(old)
    <3>1. \A i : i \in 0 .. BucketSize <=> i = 0 \/ i \in 1 .. BucketSize
      BY ONLY <1>2
    <3> QED BY ONLY <3>1, <1>6, <1>10 DEF Range
  <2>3. (\E b \in Buckets' : k \in Range(bucket'[b].entries))
          <=> \E b \in Buckets \ {b0} : k \in Range(bucket[b].entries)
    <3>1. \A b \in {fresh, fresh + 1} : bucket'[b].entries = <<>>
      BY ONLY <1>9, <1>12
    <3>2. \A b \in {fresh, fresh + 1} : k \notin Range(bucket'[b].entries)
      BY <3>1 DEF Range
    <3> QED BY ONLY <3>2, <1>9
  <2>4. (\E b \in Buckets : k \in Range(bucket[b].entries))
          <=> k \in Range(old) \/ \E b \in Buckets \ {b0} : k \in Range(bucket[b].entries)
    BY <1>2 DEF old
  <2> QED BY ONLY <2>1, <2>2, <2>3, <2>4
<1>17. RoomForRest'
  <2> SUFFICES ASSUME NEW i \in 1 .. BucketSize
               PROVE  \E b \in Buckets' :
                        /\ Hash[entryTable'[i]] % Width[bucket'[b].depth] = bucket'[b].first
                        /\ Len(bucket'[b].entries) + BucketSize <= BucketSize
    BY <1>10 DEF RoomForRest, BucketWidth, Belongs
  <2>1. entryTable'[i] = old[i] /\ old[i] \in Keys /\ Hash[old[i]] \in Nat
    BY <1>10, KeysAssumption
  <2>2. Belongs(Hash[old[i]], b0)
    BY <1>2, <1>6 DEF HashInv, EntriesInPlace, old
  <2>3. PICK b \in {fresh, fresh + 1} : Hash[old[i]] % (2 * w) = bucket'[b].first
    BY ONLY <2>1, <2>2, <1>9, <1>11, <1>12
  <2>4. bucket'[b].entries = <<>> /\ Width[bucket'[b].depth] = 2 * w /\ b \in Buckets'
    BY ONLY <2>3, <1>4, <1>9, <1>12
  <2> QED BY <2>1, <2>3, <2>4, <1>2
<1> QED BY <1>13, <1>14, <1>15, <1>16, <1>17 DEF HashInv

LEMMA HashInvAlways == Spec => []HashInv
<1>1. HashInv /\ UNCHANGED vars => HashInv'
  BY DEF HashInv, vars, tableVars, HashTypes, CellsOfBuckets, EntriesInPlace, AddedStored,
     RoomForRest, Buckets, BucketWidth, Belongs, Cells, index_size
<1>2. HashInv /\ [Next]_vars => HashInv'
  BY <1>1, CallKeepsHash, AddKeepsHash, SplitKeepsHash, ExpandKeepsHash DEF Next, Add, Idle
<1> QED BY <1>2, HashInit, PTL DEF Spec

\* For any keys and hash values, with buckets and directories of any size: between two
\* calls a lookup finds exactly the keys that were added.
THEOREM EveryAddedIsFound == Spec => []AddedIsFound
  BY HashInvAlways, InvImpliesFound, PTL

-----------------------------------------------------------------------------
(* Freeing *)

\* Numbers at a distance that is a multiple of w have the same remainder.
LEMMA SameRemainder ==
  ASSUME NEW w \in Nat \ {0}, NEW i \in Nat, NEW j \in Nat, j < i, (i - j) % w = 0
  PROVE  i % w = j % w
<1>1. i - j \in Nat
  BY SMT
<1>2. PICK q \in Nat : i - j = w * q + 0
  BY ONLY <1>1, Division, (i - j) % w = 0, w \in Nat \ {0}
<1>3. w * q \in Nat
  BY ONLY q \in Nat, w \in Nat \ {0}
<1>4. i = j + w * q
  BY ONLY <1>2, <1>3, i \in Nat, j \in Nat
<1> QED BY <1>4, RemainderOfSum

\* A number is at such a distance from its remainder.
LEMMA DistanceToRemainder ==
  ASSUME NEW w \in Nat \ {0}, NEW i \in Nat
  PROVE  (i - (i % w)) % w = 0 /\ i % w <= i
<1>1. PICK q \in Nat, r \in 0 .. w - 1 : i = w * q + r /\ r = i % w
  BY Division
<1>2. w * q \in Nat
  BY ONLY q \in Nat, w \in Nat \ {0}
<1>3. i - r = w * q + 0 /\ i - r \in Nat /\ 0 \in 0 .. w - 1
  BY ONLY <1>1, <1>2, w \in Nat \ {0}, r \in 0 .. w - 1
<1>4. (i - r) % w = 0
  BY ONLY <1>3, DivisionUnique, q \in Nat, w \in Nat \ {0}
<1> QED BY <1>1, <1>3, <1>4

\* The recursive function exists: a cell is decided by those before it.
LEMMA FreesEquation ==
  ASSUME HashInv, NEW i \in Cells
  PROVE  Frees[i] = \A j \in 0 .. i - 1 :
                      Frees[j] => (i - j) % Width[bucket[index[j]].depth] # 0
<1> DEFINE At(g, x) == \A j \in 0 .. x - 1 : g[j] => (x - j) % Width[bucket[index[j]].depth] # 0
           Rec(g) == g = [x \in Cells |-> At(g, x)]
<1>1. index_size \in Nat \ {0} /\ Cells = 0 .. index_size - 1
  BY WidthAssumption DEF HashInv, HashTypes, Cells, index_size
<1>2. \A x \in Cells : x \in Nat /\ x < index_size /\ \A j \in 0 .. x - 1 : j \in Cells /\ j < x
  BY ONLY <1>1
<1> DEFINE T == {n \in Nat : \E g : /\ g = [x \in Cells |-> g[x]]
                                    /\ \A x \in Cells : x < n => g[x] = At(g, x)}
<1>3. 0 \in T
  <2> DEFINE g == [x \in Cells |-> TRUE]
  <2>1. \A x \in Cells : ~(x < 0)
    BY ONLY <1>2
  <2>2. g = [x \in Cells |-> g[x]]
    OBVIOUS
  <2> HIDE DEF g
  <2> QED BY <2>1, <2>2
<1>4. \A n \in T : n + 1 \in T
  <2> SUFFICES ASSUME NEW n \in Nat, NEW g, g = [x \in Cells |-> g[x]],
                      \A x \in Cells : x < n => g[x] = At(g, x)
               PROVE  n + 1 \in T
    OBVIOUS
  <2> HIDE DEF At
  <2> DEFINE h == [x \in Cells |-> IF x < n THEN g[x] ELSE At(g, x)]
  <2>1. h = [x \in Cells |-> h[x]] /\ \A x \in Cells : x < n => h[x] = g[x]
    OBVIOUS
  <2>2. \A x \in Cells : h[x] = At(g, x)
    OBVIOUS
  <2> HIDE DEF h
  <2>3. ASSUME NEW x \in Cells, x < n + 1 PROVE At(h, x) = At(g, x)
    <3>1. \A j \in 0 .. x - 1 : j \in Cells /\ j < n
      BY ONLY <1>2, <2>3, n \in Nat
    <3>2. \A j \in 0 .. x - 1 : h[j] = g[j]
      BY ONLY <2>1, <3>1
    <3> QED BY ONLY <3>2 DEF At
  <2>4. \A x \in Cells : x < n + 1 => h[x] = At(h, x)
    BY ONLY <2>2, <2>3
  <2> QED BY ONLY <2>1, <2>4, n \in Nat DEF T
<1>5. T \in SUBSET Nat
  OBVIOUS
<1> HIDE DEF T
<1>6. T = Nat
  BY <1>3, <1>4, <1>5, SetInduction
<1>7. \E g : Rec(g)
  <2>1. PICK g : g = [x \in Cells |-> g[x]] /\ \A x \in Cells : x < index_size => g[x] = At(g, x)
    <3>1. index_size \in T
      BY <1>1, <1>6
    <3> QED BY <3>1 DEF T
  <2> HIDE DEF At
  <2>2. \A x \in Cells : g[x] = At(g, x)
    BY ONLY <1>2, <2>1
  <2> QED BY ONLY <2>1, <2>2 DEF Rec
<1>8. Frees = CHOOSE g : Rec(g)
  BY DEF Frees
<1> DEFINE F == Frees
<1>9. Rec(F)
  <2> HIDE DEF Rec
  <2> QED BY <1>7, <1>8
<1> HIDE DEF F
<1>10. F[i] = At(F, i)
  <2> HIDE DEF At
  <2>1. F = [x \in Cells |-> At(F, x)]
    BY <1>9
  <2> QED BY ONLY <2>1, i \in Cells
<1> QED BY <1>10 DEF F

\* A cell's bucket is freed there exactly if it is the bucket's first cell.
LEMMA FreedAtFirst ==
  ASSUME HashInv
  PROVE  \A i \in Cells : Frees[i] <=> i = bucket[index[i]].first
<1> DEFINE First(i) == bucket[index[i]].first
           W(i) == Width[bucket[index[i]].depth]
<1>1. index_size \in Nat \ {0} /\ Cells = 0 .. index_size - 1
  BY WidthAssumption DEF HashInv, HashTypes, Cells, index_size
<1>2. ASSUME NEW i \in Cells
      PROVE  /\ W(i) \in Nat \ {0} /\ i % W(i) = First(i) /\ First(i) \in 0 .. W(i) - 1
             /\ \A j \in Cells : j % W(i) = First(i) => index[j] = index[i]
  <2>1. index[i] \in Buckets
    BY DEF HashInv, HashTypes
  <2>2. bucket[index[i]].depth \in 0 .. MaxDepth
    BY <2>1 DEF HashInv, HashTypes
  <2>3. W(i) \in Nat \ {0}
    BY <2>2, WidthAssumption
  <2> QED BY <2>1, <2>3 DEF HashInv, CellsOfBuckets, Belongs, BucketWidth
<1> HIDE DEF First, W
<1>3. \A i \in Cells : Frees[i] = \A j \in 0 .. i - 1 : Frees[j] => (i - j) % W(j) # 0
  BY FreesEquation DEF W
<1>f. \A i, j \in Cells : index[j] = index[i] => First(j) = First(i) /\ W(j) = W(i)
  BY DEF First, W
<1> DEFINE Good(i) == Frees[i] <=> i = First(i)
           T == {n \in Nat : \A i \in Cells : i < n => Good(i)}
<1>4. 0 \in T
  BY ONLY <1>1
<1>5. ASSUME NEW n \in T PROVE n + 1 \in T
  <2> SUFFICES ASSUME n \in Cells PROVE Good(n)
    BY <1>1
  <2>1. n \in Nat /\ \A j \in 0 .. n - 1 : j \in Cells /\ j < n /\ Good(j) /\ j \in Nat
    BY <1>1
  <2> HIDE DEF Good
  <2>2. CASE n = First(n)
    <3>1. ASSUME NEW j \in 0 .. n - 1, Frees[j] PROVE (n - j) % W(j) # 0
      <4>1. j = First(j)
        BY <2>1, <3>1 DEF Good
      <4> SUFFICES ASSUME (n - j) % W(j) = 0 PROVE FALSE
        OBVIOUS
      <4>2. n % W(j) = j % W(j)
        BY <2>1, <1>2, SameRemainder
      <4>3. index[n] = index[j]
        BY <1>2, <2>1, <4>2
      <4>4. First(n) = First(j)
        BY <4>3, <1>f, <2>1
      <4> QED BY <2>1, <2>2, <4>1, <4>4
    <3> QED BY <3>1, <2>2, <1>3 DEF Good
  <2>3. CASE n # First(n)
    <3> DEFINE f == First(n)
    <3>1. f \in 0 .. n - 1 /\ n % W(n) = f
      <4>1. n % W(n) <= n
        BY ONLY <2>1, <1>2, n \in Cells, DistanceToRemainder
      <4> QED BY <1>2, <2>1, <2>3, <4>1
    <3>2. f % W(n) = f
      BY <1>2, SmallRemainder
    <3>3. index[f] = index[n] /\ f \in Cells /\ Good(f)
      BY <1>2, <2>1, <3>1, <3>2
    <3>4. First(f) = f /\ W(f) = W(n)
      BY <1>f, <3>3
    <3>5. Frees[f]
      BY <3>3, <3>4 DEF Good
    <3>6. (n - f) % W(f) = 0
      BY <1>2, <2>1, <3>1, <3>4, DistanceToRemainder
    <3>7. ~Frees[n]
      BY <1>3, <3>1, <3>5, <3>6
    <3> QED BY <3>7, <2>3 DEF Good
  <2> QED BY <2>2, <2>3
<1>6. T \in SUBSET Nat
  OBVIOUS
<1> HIDE DEF T
<1>7. T = Nat
  BY <1>4, <1>5, <1>6, SetInduction
<1>8. ASSUME NEW i \in Cells PROVE Good(i)
  <2>1. index_size \in T /\ i < index_size
    BY <1>1, <1>7
  <2> QED BY <2>1 DEF T
<1> QED BY <1>8 DEF First

\* For any keys, hash values and sizes: destroyHashEntries frees each bucket that was
\* allocated and is still in use, at its first cell, and none of them twice, although
\* several cells point to it.
THEOREM EveryBucketFreedOnce == Spec => []BucketsFreedOnce
<1>1. ASSUME HashInv, NEW b \in Buckets
      PROVE  Cardinality({i \in Cells : Frees[i] /\ index[i] = b}) = 1
  <2> DEFINE f == bucket[b].first
  <2>1. index_size \in Nat \ {0} /\ Cells = 0 .. index_size - 1 /\ depth \in 0 .. MaxDepth
    BY <1>1, WidthAssumption DEF HashInv, HashTypes, Cells, index_size
  <2>2. /\ bucket[b].depth \in 0 .. MaxDepth /\ bucket[b].depth <= depth
        /\ f \in 0 .. BucketWidth(b) - 1
        /\ \A i \in Cells : index[i] = b <=> Belongs(i, b)
    BY <1>1 DEF HashInv, HashTypes, CellsOfBuckets
  <2>3. BucketWidth(b) \in Nat \ {0} /\ BucketWidth(b) <= index_size
    <3> DEFINE w == Width[bucket[b].depth]
               m == Width[depth - bucket[b].depth]
    <3>1. w \in Nat \ {0} /\ m \in Nat \ {0} /\ index_size = w * m /\ BucketWidth(b) = w
      BY <2>1, <2>2, WidthDivides, Zenon DEF BucketWidth, index_size
    <3> HIDE DEF w, m
    <3>2. w <= w * m
      BY ONLY <3>1
    <3> QED BY ONLY <3>1, <3>2
  <2>4. f \in Cells
    BY ONLY <2>1, <2>2, <2>3
  <2>5. index[f] = b
    <3>1. f % BucketWidth(b) = f
      BY ONLY <2>2, <2>3, SmallRemainder
    <3> QED BY ONLY <2>2, <2>4, <3>1 DEF Belongs
  <2>6. {i \in Cells : Frees[i] /\ index[i] = b} = {f}
    BY <1>1, <2>4, <2>5, FreedAtFirst
  <2> QED BY <2>6, FS_Singleton
<1>2. HashInv => BucketsFreedOnce
  BY <1>1 DEF BucketsFreedOnce, Buckets
<1> QED BY <1>2, HashInvAlways, PTL
=============================================================================
