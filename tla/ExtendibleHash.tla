--------------------------- MODULE ExtendibleHash ---------------------------
(***************************************************************************)
(* The hash table by number of Src/GenericStructs/ghash.c: a directory of  *)
(* index_size cells that point to buckets.  A full bucket is split in two  *)
(* as long as several cells point to it, else the directory is doubled.    *)
(* addToHashTable is modelled step by step with its table of entries to    *)
(* be inserted, of which countEntries is the one at work.                  *)
(*                                                                         *)
(* An entry is its key; a bucket is known by a number, as by its address.  *)
(* The table by string adds in the same way, but its hashFunction3 depends *)
(* on earlier calls: UpdateIndex models what its lookups may return.       *)
(***************************************************************************)
EXTENDS Integers, Sequences, FiniteSets, Functions

CONSTANTS
  Keys,         \* the keys, none of them the number -1, where getEntry stops
  Hash,         \* key * 2654435761, 32 bits wide: hashFunction2 before the modulo
  NoEntry,      \* NULL in a table of entries
  BucketSize,   \* bucketSize
  StartDepths,  \* log2 of init_size
  MaxDepth      \* bound: log2 of the greatest directory

ASSUME KeysAssumption == Hash \in [Keys -> Nat] /\ NoEntry \notin Keys
ASSUME SizesAssumption ==
  BucketSize \in Nat \ {0} /\ MaxDepth \in Nat /\ StartDepths \subseteq 0 .. MaxDepth

\* pow(2, depth): the distance of the cells that point to a bucket of this depth.
Width == [d \in 0 .. MaxDepth |-> 2 ^ d]

\* Arithmetic of powers, which the provers do not have.
ASSUME WidthAssumption ==
  /\ \A d \in 0 .. MaxDepth : Width[d] \in Nat \ {0}
  /\ Width[0] = 1
  /\ MaxDepth >= 1 => Width[1] = 2
  /\ \A d, e \in 0 .. MaxDepth : d + e <= MaxDepth => Width[d + e] = Width[d] * Width[e]

VARIABLES
  index,         \* the bucket of each cell
  bucket,        \* the buckets: entries, depth, and first_of_pointers
  depth,         \* log2 of index_size
  fresh,         \* the number of buckets allocated so far
  entryTable,    \* the entries that addToHashTable has in hand
  countEntries,  \* the last of them, or -1
  added          \* the keys given to addToHashTable

tableVars == <<index, bucket, depth, fresh>>
vars == <<tableVars, entryTable, countEntries, added>>

index_size == Width[depth]
Cells == 0 .. index_size - 1

NewBucket(d, first) == [entries |-> <<>>, depth |-> d, first |-> first]

NoEntries == [i \in 0 .. BucketSize + 1 |-> NoEntry]

\* One bucket that all cells share, of depth 0.
initHashTable ==
  /\ index = [i \in Cells |-> 0]
  /\ bucket = [b \in {0} |-> NewBucket(0, 0)]
  /\ fresh = 1

\* A bucket for each cell.
initHashTable2 ==
  /\ index = [i \in Cells |-> i]
  /\ bucket = [b \in Cells |-> NewBucket(depth, b)]
  /\ fresh = index_size

Init ==
  /\ depth \in StartDepths
  /\ initHashTable \/ initHashTable2
  /\ entryTable = NoEntries /\ countEntries = -1
  /\ added = {}

-----------------------------------------------------------------------------
hashFunction2(k) == Hash[k] % index_size

fullBucket(b) == Len(bucket[b].entries) >= BucketSize

getEntry(k) == k \in Range(bucket[index[hashFunction2(k)]].entries)

\* The call; the callers have looked the key up before.
addToHashTable(k) ==
  /\ countEntries = -1 /\ k \notin added
  /\ entryTable' = [NoEntries EXCEPT ![0] = k]
  /\ countEntries' = 0
  /\ added' = added \cup {k}
  /\ UNCHANGED tableVars

\* The bucket in which the entry at work belongs.
target == index[hashFunction2(entryTable[countEntries])]

\* Mutant of addToIndexCell: the entry stays the one at work.
addToCellAgain ==
  /\ countEntries # -1 /\ ~fullBucket(target)
  /\ bucket' = [bucket EXCEPT ![target].entries = Append(@, entryTable[countEntries])]
  /\ UNCHANGED <<index, depth, fresh, entryTable, countEntries, added>>

addToIndexCell ==
  /\ countEntries # -1 /\ ~fullBucket(target)
  /\ bucket' = [bucket EXCEPT ![target].entries = Append(@, entryTable[countEntries])]
  /\ countEntries' = countEntries - 1
  /\ UNCHANGED <<index, depth, fresh, entryTable, added>>

\* The cells from a first one on, in steps of a width; the loop of spiltBucket stops
\* before the last cell of the directory.
CellsFrom(first, width) ==
  {i \in Cells : i >= first /\ (i - first) % width = 0 /\ (i = first \/ i + 1 < index_size)}

\* The cells of a bucket point in turn to the two that it is split into.
Rewired(old, low, high) ==
  LET first == bucket[old].first
      width == Width[bucket[old].depth]
      lows  == CellsFrom(first, 2 * width)
  IN  [i \in Cells |-> IF i \in lows THEN low
                       ELSE IF i - width \in lows THEN high
                       ELSE index[i]]

\* Mutant of Taken: one entry fewer is taken out of the old bucket.
TakenOneFewer == BucketSize - countEntries - 1

\* How many entries of the old bucket there is room for behind the one at work.
Taken == BucketSize - countEntries

\* They are put there, and the entry of the call behind them, where it is not used.
Refilled(old) ==
  [i \in 0 .. BucketSize + 1 |->
     IF i \in countEntries + 1 .. countEntries + Taken
     THEN bucket[old].entries[i - countEntries]
     ELSE IF i = countEntries + Taken + 1 THEN entryTable[0]
     ELSE entryTable[i]]

spiltBucket ==
  /\ countEntries # -1 /\ fullBucket(target) /\ bucket[target].depth < depth
  /\ LET d     == bucket[target].depth
         first == bucket[target].first IN
       /\ index' = Rewired(target, fresh, fresh + 1)
       /\ bucket' = [b \in (DOMAIN bucket \ {target}) \cup {fresh, fresh + 1} |->
            IF b = fresh THEN NewBucket(d + 1, first)
            ELSE IF b = fresh + 1 THEN NewBucket(d + 1, first + Width[d])
            ELSE bucket[b]]
       /\ fresh' = fresh + 2
       /\ entryTable' = Refilled(target)
       /\ countEntries' = Taken
  /\ UNCHANGED <<depth, added>>

expandHash ==
  /\ countEntries # -1 /\ fullBucket(target) /\ bucket[target].depth >= depth
  /\ depth < MaxDepth
  /\ depth' = depth + 1
  /\ index' = [i \in 0 .. 2 * index_size - 1 |->
                 IF i < index_size THEN index[i] ELSE index[i - index_size]]
  /\ UNCHANGED <<bucket, fresh, entryTable, countEntries, added>>

Add == addToIndexCell \/ spiltBucket \/ expandHash

\* No more calls come.
Idle == countEntries = -1 /\ UNCHANGED vars

Next == (\E k \in Keys : addToHashTable(k)) \/ Add \/ Idle

Spec == Init /\ [][Next]_vars

\* A call that was made goes on.
FairSpec == Spec /\ WF_vars(Add)

-----------------------------------------------------------------------------
(* destroyHashEntries, destroyHash: the cells whose bucket is freed, in order;   *)
(* each marks the cells at its bucket's distance in map.                         *)

\* Mutant of Frees: the marks go on by the directory's depth.
FreesEveryCell ==
  LET frees[i \in Cells] == \A j \in 0 .. i - 1 : frees[j] => (i - j) % index_size # 0
  IN  frees

Frees ==
  LET frees[i \in Cells] ==
        \A j \in 0 .. i - 1 : frees[j] => (i - j) % Width[bucket[index[j]].depth] # 0
  IN  frees

-----------------------------------------------------------------------------
(* Properties *)

\* Between two calls a key is found exactly if it was added, through any splits of
\* its bucket and doublings of the directory.
AddedIsFound == countEntries = -1 => \A k \in Keys : getEntry(k) <=> k \in added

\* destroyHashEntries frees each bucket that there is, and none of them twice.
BucketsFreedOnce ==
  \A b \in DOMAIN bucket :
    Cardinality({i \in Cells : Frees[i] /\ index[i] = b}) = 1

\* A call ends: splitting and doubling separate the keys of a full bucket.
AddEnds == countEntries # -1 ~> countEntries = -1
=============================================================================
