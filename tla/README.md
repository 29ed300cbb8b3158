# Minimal_Step_Path: a TLA+ verification development

Minimal_Step_Path loads a directed graph and a workload, and prints for every
query line the number of edges on a shortest path, or -1. This directory holds
TLA+ models of its core, TLC configurations that check them, and theorems about
them with proofs that TLAPS checks. Paths are relative to `src/`; line numbers
are those of the files there.

## 1. The system

| part | code | state it keeps | operations |
|---|---|---|---|
| job scheduler | `Src/Threads/jobScheduler.c` | job queue, `batchfinished`, `parkedThreads`, four mutexes, two conditions | `submit_job`, `execute_all_jobs`, `wait_all_tasks_finish`, `destroy_scheduler`, the worker loop |
| parallel drivers | `staticWorkLoad`, `dynamicWorkLoad` in `Src/Graph/graphQA.c` | results table, job counter, current version, queries since the last rebuild | one handler per line: Q, A, F, end of file |
| components and update index | `Src/Components/weaklyConnectedConponens.c` | component of each node, nodes of each component, `dHash`, `versioningHash`, use counter | `estimateConnectedComponets`, `insertNewEdge`, `nodesInSameComponent`, `rebuildIndexes`, `estimateMetric` |
| bidirectional search | `shortestLength*BBFS` in `graphQA.c` | two queues, `visitedTable`, layer counters, distance | one search per query |
| graph, buffer, node index | `Src/Graph/graph.c`, `buffer.c`, `Src/Indexes/nodeIndex.c` | list nodes in one growing buffer, offset and tail per node | `graphCreate`, `insertNeighbors`, `addEdge` |
| dataset reader | `Src/UtilityFuctions/datasetReader.c` | position in the graph file | `myfread`, `countNewLine`, `graphChunkIntoArray` |
| linked queue | `Src/ExclusiveStructs/queue.c` | head, tail, two links per node | insert, take from the head, delete anywhere |
| extendible hash | `Src/GenericStructs/ghash.c` | directory, buckets, and the global `hval` | insert and look up, by number and by string |
| GRAIL, SCC, hypergraph | `Src/Indexes/grail.c`, `Src/Components/stronglyConnectedComponents.c`, `Src/HyperGraph/hyperGraph.c` | labels, components, condensation | built once for a static workload |
| the rest | stacks, lists, `main.c`, `compareResults.c` | | containers, file I/O |

**How they interact.** `graphCreate` reads the graph file chunk by chunk and
inserts the edges of a chunk into the outgoing lists, then into the ingoing ones;
each outgoing list has a hash table that finds its neighbours. Then main reads
the workload. Q lines go into the scheduler's
queue. A lines change the graph and the update index at once. At an F line main
opens the batch, and 16 threads take the queries, search the graph, ask the
index, raise its use counter, and write into `results[0]`, a pointer they share
with main. Main waits until all threads are parked, may rebuild the index,
prints, and frees the table. Nothing but that barrier keeps main's
unsynchronised reads and frees apart from the threads' work.

**What is hard.** The barrier counts parked threads, and a thread that is woken
and finds nothing counts itself again. A batch is closed by any worker that
finds the queue empty, possibly while main opens the next. Queries are answered
on a graph that later lines have changed, so versions must hide edges exactly.
The index is merged through shared cells, with versions behind a string hash
whose accumulator is never reset. A list node is reached through offsets and
pointers into a buffer that moves when it grows, and a chunk of the file is cut
wherever its bytes end. `PROJECT.json` lists these hazards with their
lines and the properties that cover each.

**What makes each part correct.** Scheduler: every query is answered exactly
once; the barrier admits main only when no worker is busy; no wakeup is lost;
everything ends. Driver: a query sees the graph of its own line; the table lives
as long as someone writes to it. Index: it never says "same component" of
unconnected nodes, and never "different" of connected ones. Search: the result is
the distance, and it ends. Storage and hash: they hold the lists, or the set of keys, that were put in, and
no pointer outlives the buffer it leads into. Reader: the graph is that of the
file, wherever the chunks are cut. GRAIL: it never rules out a pair that is connected.

## 2. The modules

| module | what it is |
|---|---|
| `JobScheduler` | the scheduler and the two drivers' main thread, at the grain of pthread calls |
| `BatchExecutor` | abstract: what the scheduler promises the drivers |
| `JobSchedulerInv` | the strengthening of the barrier, named part by named part, and the mapping to `BatchExecutor` |
| `MCJobScheduler` | symmetry, and `BatchExecutor` with its liveness as a property |
| `JobSchedulerProofs` | theorems about `JobScheduler` |
| `Paths` | reference definitions: connected, distance |
| `PathsProofs` | lemmas about them: what the recursive functions give |
| `UpdateIndex` | component labels and update index; also the promise that the driver keeps |
| `DynamicWorkload` | `dynamicWorkLoad` on its data, composed with `UpdateIndex` |
| `MCDynamicWorkload` | its instances |
| `DynamicWorkloadProofs` | theorems about `UpdateIndex` and `DynamicWorkload` |
| `BidirectionalBFS`, `MCBidirectionalBFS` | the four searches, and their graphs |
| `BidirectionalBFSProofs` | theorems about them |
| `EdgeLists` | abstract: what a loaded graph promises the searches |
| `NeighborStore` | buffer, node index, and `insertNeighbors` step by step |
| `GraphLoad`, `MCGraphLoad` | the dataset reader, `graphCreate` and `addEdge` on top of it, and its files |
| `GraphLoadProofs` | theorems about the two |
| `ExtendibleHash`, `MCExtendibleHash` | the hash table by number, and its keys |
| `ExtendibleHashProofs` | theorems about it |
| `LinkedQueue` | operators: the queue of `queue.c` over a heap of linked nodes |
| `WeakComponents`, `MCWeakComponents` | `estimateConnectedComponets` on two such queues, and its graphs |
| `WeakComponentsProofs` | theorems about the queue's operations and about the search |
| `StrongComponents` | `estimateStronglyConnectedComponents`: Tarjan with explicit stacks |
| `Grail` | `buildGrailIndex` and `isReachableGrailIndex` on a hypergraph |
| `StaticIndex`, `MCStaticIndex` | the two composed by `createHyperGraph`, as `staticWorkLoad` does, and its graphs |
| `StaticIndexProofs` | theorems about `StrongComponents`, `Grail` and the composition |

### JobScheduler
Each worker has a program counter `wpc`, main has `mpc`. A critical section that
touches one shared variable is one action, enabled when its mutex is free;
`queueMutex`, `batchMutex` and `parkedThreadsMutex` have owner variables, because
workers hold them over several steps or nested. A worker waits for the batch in
`asleep`; being woken puts it back at `enter`, because both there and after a wait
it takes `batchMutex` and tests `batchfinished`. `Sleep` releases the mutex and
waits in one step, as `pthread_cond_wait` does. `results` is the table that
`results[0]` points to: it holds the job that was answered, not a length, which
is enough to tell whose answer is where; `live` is FALSE after `free`. Header
`S` and `D` differ in `queriesCount`, in the use counter, and in the metric and
rebuild between barrier and printing; A lines change nothing here.

Three specifications share `Next`. `Spec` starts with threads created and none
run. `ParkedSpec` starts with all of them parked, which `Spec` reaches when main
is slow to read its first line. `PosixSpec` adds early returns of both waits.

### UpdateIndex, DynamicWorkload
`dHash` maps a component to the number of its heap cell, `cell` a number to the
id in the cell, so that sharing by pointer stays visible. `versioningHash` is the
set of stored (component, component, version). `hashFunction3` continues from a
global that earlier calls left, so a lookup of a stored key may miss it or find
any entry of that key: `Lookup` returns all of these. Entries that splitting a
bucket drops are covered by the misses. `nodesInSameComponent` returns the set of
answers and flags; where the code does not store the flag, it is either value.

`DynamicWorkload` has one action per line type, `Answer` for one query, `Metric`
and `PrintResults`. The answers come in any order between `FLine` and `Metric`,
which is what `JobScheduler` gives from a parked start; the search is its result,
which `BidirectionalBFS` justifies. A query's `graph` is a history field, the
edges at its line, that no action reads.

### BidirectionalBFS
The four searches of the program share one skeleton, and the variable `search`
says which one runs. They differ in the early returns, in the edges they see, and
in `Kept`, the new nodes they queue and mark: all of them (dynamic, plain), those
of the same strong component, or those that GRAIL does not rule out for one node
of the other side's layer (static). GRAIL's answer is left open between what
`StaticIndex` shows of it, never NO for a path that exists, and MAYBE anywhere.

`layer` and `next` of a side stand for its queue and its two counters; the order
within a layer is left open. `edgeProperty` is abstracted to what the search tells
apart: absent, passed over, visible. One `Pop` looks at one node's list: the order
in that list changes what is marked when the search returns there, which nothing
reads any more.

### NeighborStore, GraphLoad
`buffer` is of each side the number of the buffer in use, its size and its fill
indicator; `node` gives the list nodes by their offset. Every `resizeBuffer` takes a
new buffer number, and a pointer is a pair of buffer number and offset, so a
pointer that was not taken along is told from one that was; a store through it
is lost (`Stored`). `insertNeighbors` sets `part` and begins at `connect`
(`connectIndexBuffer`), then handles one neighbour per step at `insert`; `Grow` is one
turn of either loop over `resizeBuffer`, with the reload of `listNode` where the
code has it. `hash` of a node is the map of its table from neighbour to list node;
how the table keeps it is `ExtendibleHash`'s matter. `edgeProperty` is left out:
`DynamicWorkload` has the versions.

`GraphLoad` adds the file, `line` (how far `fseek` has left it), the chunk in work
and `counter`. Of a file's text it keeps the bytes of each line, which decide where
a chunk ends (`Whole`) and whether the last newline is overwritten before lines are
counted (`LastNewlineBlanked`). A row of the table that no line filled holds what
`malloc` left, any pair. After loading come A lines through `addEdge`.

### ExtendibleHash
`index` is the directory, `bucket` the buckets by a number that stands for their
address, `entryTable` and `countEntries` the locals of `addToHashTable`, whose loop is
the three actions `addToIndexCell`, `spiltBucket` and `expandHash`. Both ways to start
are taken: one shared bucket, or one per cell. `Frees` is what `destroyHash` and its
two kin do with their marks. Keys may agree in any bits of their hash, but -1,
where `getEntry` stops, is none of them. `MaxDepth` caps the directory, so that keys
that agree in 32 bits would stop it; the code would double on without end.

### WeakComponents, StrongComponents, Grail, StaticIndex
Each takes any graph made of the edges in `Pairs`, and one step handles one node
or one neighbour of a node. Lists are sets, so their order in the file is left
open; in `Grail` the code itself chooses at random. `path` in `StrongComponents` is
the code's `queue`, which is used from its tail only. A node keeps its
`currentNeightbor` while that one is expanded, and looks at it again. In `Grail`
a frame is the pair on the code's stack, the component and the least `minRank` so
far. `StaticIndex` runs the two one after the other, with `createHyperGraph` in
between as one step. `WeakComponents` has the code's two queues with all
their links (`LinkedQueue`), and counts how often a node is put in a component's
list, because the code puts every node but the first in it twice.

## 3. What the runs show

| run | instance | shows |
|---|---|---|
| `cold_start` | 2 threads, 2 queries, 2 batches, S and D, `PosixSpec`; 341,001 states | types, each query handed out once, an open batch with work stays open, no lost wakeup, one poison per thread, termination |
| `parked_start` | 3 threads, 2 queries, 2 batches, `ParkedSpec`; 107,182 states | the barrier, complete printing, no use after free, uses within queries, and refinement of `BatchExecutor`, with its liveness |
| `dynamic` | 5 nodes in 4 components, 3 A lines, 2 queries per batch, 2 batches; 243,589 states | snapshot visibility, exact lengths, exact -1 up to two cells, no false merge, refinement of `UpdateIndex`, no rebuild after a use |
| `search` | 5 nodes, 8 possible edges in three states each; 149,490 states | for all four searches: layers are distances, no edge missed, the result is the distance, termination |
| `static_index` | 5 nodes, 9 possible edges, 2 labels; 45,316 states | strong components are exact and numbered against the edges, intervals nest, every component is ranked, a NO is never wrong, termination |
| `weak` | 5 nodes, 8 possible edges; 11,186 states | the queues stay well linked, components include their own nodes, and are numbered as `UpdateIndex` assumes |
| `load` | 4 nodes, files of 2 to 5 lines out of 4 edges, chunks of 10 bytes, 2 neighbours in a list node, 1 A line; 131,692 states | list nodes lie in their buffers, no pointer outlives a resize, the hash names the holder of a neighbour, the graph is that of the file, refinement of `EdgeLists`, loading ends |
| `hash` | 7 keys, buckets of 2, directories of 1, 2 or 4 cells that may grow to 32; 14,979 states | the added keys are found and no others, each bucket would be freed once, every call ends |
| `cold_barrier` | 2 threads, 1 query, 1 batch, `Spec` | **violation** of `PrintedComplete` |
| `lost_merge` | 6 components, 5 A lines, 1 query | **violation** of `AnswersExact` |
| `lesser_id` | 6 components | **violation** of `LesserId` |
| `two_versions` | 4 components | **violation** of `OldVersionStays` |

**Why the bounds are enough.** Two workers suffice for every race of the
scheduler between a late and an early thread, three for one that is busy while
two others disturb the count; two batches let one batch's leftovers meet the
next; two queries let one worker answer twice or two of them once each.
`ParkedBound` caps early returns, which raise `parkedThreads` without limit. In
`dynamic`, four components allow two separate merges and their join, a third A
line repeats an edge or closes a chain, and a second batch meets a rebuilt or kept
index. In `search`, eight possible edges hold paths of up to four edges, cycles, a
self loop and dead ends at both sides. In `static_index` nine edges give cycles that
share a node, condensations that are trees, diamonds or single nodes, and the
second label shows what the first one could leave behind; three are built by the
code, and they do not depend on each other otherwise. In `weak` nodes are linked
by edges in, edges out or both. In `load` a list of three needs two list nodes, the
four list nodes of a side need two resizes of a buffer of 100 bytes (its real first
size) and one falls into a list at work; lines of 4 and 5 bytes in chunks of 10 make
chunks that end at a line, within one, in front of the S line and exactly behind
it; a file may repeat an edge in one chunk and across two. In `hash` keys agree in
one, two or four bits, so buckets split, stay full after a split, and the
directory doubles several times in one call; 32 cells tell the seven keys apart. Five A lines are needed for `lost_merge`.

**Deadlock** is checked except in the `DynamicWorkload` runs, where the workload
may be used up and the program stops reading.

**Fairness.** `JobScheduler` assumes weak fairness of main and of each worker:
POSIX threads are scheduled eventually. A mutex is taken when free, and the
checked instances need no stronger assumption on who gets it. Early returns
have none. `BidirectionalBFS` and `StaticIndex` assume that their one thread runs.
So does `GraphLoad`, for the steps of loading: A lines need not come. In
`ExtendibleHash` a call that was made goes on. `DynamicWorkload` and
`WeakComponents` claim no liveness.

### The four violations
* `cold_barrier`. The broadcast at `jobScheduler.c:150` comes after the unlock. A
  thread that arrives between them passes line 22, finds the queue empty, closes
  the batch, counts itself and sleeps; the broadcast wakes it; the batch is
  closed; it counts itself again. With the count complete, main prints while
  another worker still searches. `Barrier` and what rests on it are therefore
  claimed for the parked start only. In the code that start is not enforced.
* `lost_merge`. `insertNewEdge` sets two cells equal and does not unite them. The
  program built from these sources prints -1 for such a workload, too: six nodes
  with self loops, A lines 0-1, 2-3, 4-5, 3-4, 1-2, query 1 to 5, whose distance is 4.
* `lesser_id`. A join to an existing cell ignores the joining component's id.
* `two_versions`. A missed lookup stores a second version of a pair.

`ExactUpToTwoCells` says how far the index is right: while it has no more than
two cells, has not been folded into `ccindex`, and does not hold a later version
of the query's two components in both directions.

## 4. What is proved

All of it for every value of the constants, under the named assumptions.

**JobScheduler.** `PosixTyped`, `PosixQueuedKeepsOpen` and `PosixNoLostWakeup` hold
for `PosixSpec`: any start, early returns included. For `QueuedKeepsOpen` the
argument is that a worker holds `queueMutex` from seeing the queue empty to
having closed the batch, so no job is submitted and no closing is pending when
main opens; for `NoLostWakeup`, that the count reaches its limit only in a worker
that has still to announce it. So do `PosixHandedOutOnce` and `PosixOnePoisonEach`.
The first rests on `JobsRead`: a query that is about was read before the next one main
submits. The second on `PoisonsLast`: poison jobs are submitted behind all queries,
so a thread takes one only when no query is left; the counts move by one element
at a time (`PlacesOfTail`, `PlacesOfAppend`).
`ParkedBarrier`, `ParkedPrintsAll` and `ParkedLiveWhileBusy` hold for `ParkedSpec`
and rest on `ParkedInvariant`. `Barrier` alone is not inductive: it needs that
`parkedThreads` is the number of parked workers (`ParkedCount`), which needs that
main opens with everybody parked (`ParkedCount` at `wake`) and that a worker
parks only when the batch is closed (`ClosedAndEmpty`), which needs the lock
owners (`LockOwners`). Completeness adds that each query is queued, in hand or
answered (`JobsAccounted`), and freeing adds `JobsCurrent`.
`ParkedUsesWithinQueries` counts the queries that wait or are searched as uses to come
(`UsesInv`), and needs the barrier where main resets both counters.
`ParkedImplementsExecutor` is the refinement of `BatchExecutor`, without its fairness.
A worker's `Write` is `Answer`, an F line `Start`, printing `Deliver`, the end of the
file `Stop`; all else stutters. It needs that an answered query was in one place only
(`HandedOutOnce`), that its cell held no other answer (`CellsCurrent`), and for
`Deliver` and `Stop` that with everybody parked and the queue empty nothing is pending.
Assumed: threads are a
finite, non-empty set; `Free` is none of them; `EndsWithF` for
`ParkedLiveWhileBusy` and `ParkedImplementsExecutor`.

**UpdateIndex.** `IndexTyped`: entries point to cells that hold ids.
`IndexNeverMergesFalsely`: merged nodes are weakly connected. `NoFalseMerge` is not
inductive, because `rebuildIndexes` relabels the nodes that a component was *made*
of; `Labelled` and `Pointed` relate a node to those nodes, and a component in the
index to the one its cell names. Assumed: finitely many nodes, numbered.

**DynamicWorkload.** `QueriesSeeTheirSnapshot`, from `TablesAgree` (an edge that was
added twice is in the ingoing lists with its first version too), `QueriesBefore`
(no query has the version that the next A line uses) and `VersionBound`.
`PrintedLengthsAreDistances` is the driver's main promise: with `SnapshotVisible` the
search sees the graph of the query's line, so what it answers is that graph's distance
(`AnsweredSoFar`: an answer that is there is -1 or the distance), and neither A lines nor
a rebuild can touch it before it is printed. `UsedIndexIsKept` needs that the uses, with
one more for each query still to be answered, are no more than the queries (`Counted`). It
assumes `MetricVal > 1`; the code has 3, and with 0 or 1 would rebuild a used index.
`DriverImplementsIndex` is the refinement of `UpdateIndex`, and with it
`DriverNeverMergesFalsely` follows. `AnswersExactUpToTwoCells` is the other half of the
answers: when -1 is right. `MergesKept` says that the index joins the ends of every edge,
which is inductive up to two cells (`InsertJoins`: `EqualCells` then writes all there
are); so what a path joins, `nodesInSameComponent` finds (`LookupFinds`). Answers must
survive the rebuild before printing: an index with anything in it has two components at
one cell (`Paired`), so `rebuildIndexes` gives their nodes one id and ends
`NeverRelabelled`, and an empty index it leaves as it is (`RebuildRelabels`). Assumed: `TablesAssumption`, that the loaded
graph's biggest node has an edge in and an edge out, so both tables cover all
nodes.

**Reference definitions.** `Forward` and `Dist` are recursive functions, so that they
are functions at all, and what they compute, has to be shown. `PathsProofs` does it by
induction over sets of numbers (`LeastNat`, `SetInduction`): `Forward[n]` is what
some `Forward[n - 1]` leads to in an edge, it stops growing after as many steps as there
are nodes, so the last one is closed under edges, and the least `n` at which a
node appears is its `Dist`. Two such layers that meet give the distance between the ends.

**BidirectionalBFS.** For all four searches, on any graph: `SearchReturnsDistance`,
`LayersHoldDistances`, `NoEdgeIsMissed`. The run's invariant speaks of the top of a round
only. The inductive `Rounds` says it of each side on its own at any moment: a side is
`Complete` to some depth (marked is what is no further than that, `layer` what is exactly
there), or it is `Growing` (what has left `layer` has its neighbours marked). All
of this is about nodes that count: the static search may leave out what is on no path
from one end to the other, and what is on one stays on one along its own
shortest path. A node the other side has marked, found by a side that grows, is the first
meeting of two completed balls, so the counter `distance` is the distance. Assumed:
finitely many nodes, `PairsAssumption`.

**Weak components.** First `LinkedQueue`: `IsQueue` says that a head, a tail and the
links stand for a sequence, and `InsertsLast`, `DeletesAt` and `TakesFirst` that each
operation of `queue.c` does to the sequence what it should (`UnlinksAt` has the four cases
of a deletion) and touches no node outside it; `WalkReads` shows the recursive function of
`Walk`, and `FilledIsQueue` that of `Filled`. `QueuesStayLinked` is then an invariant about
two sequences without a common node. `NumberingIsLeft` needs the phase (`Phase`: between
components, the first node waiting, or under way with that node as `Root`), that the
neighbours of a node that was taken bear its id or are still to be looked at, and that the
latter are neighbours of a node of this very component (`Explored`). For a node that `LookAt`
finds numbered could else be one of an earlier component: it was taken then, or waits now, and if
it was taken its neighbours bear its id, the one in hand among them.
`ComponentsIncludeTheirNodes` comes from the count of `nodeList` in `Working`. Assumed:
`NodesAssumption`, `PairsAssumption`.

**GRAIL.** For `GrailSpec`, which builds the index on any acyclic hypergraph whose
edges lead to lesser ids. `GrailIntervalsNest`: nesting alone is not inductive, for a component takes
its `min` from its frame. `Frames` says what a frame knows (each neighbour taken has
its interval and does not begin before `min`, or is the frame above), and stays true
because a component is never on the stack twice (`Ordered`, from the acyclic ids) and
none is finished while it is on it (`Fresh`). `GrailNeverRulesOut` follows without
induction: the components whose intervals lie in that of `c` are closed under the
edges, so they take in all that `c` leads to. Assumed: finitely many ids, all positive.

**Strong components.** Two invariants of Tarjan's steps, on any graph. `SCCInv`: both stacks are sorted by `idx` (`Numbered`), a node met is on the
stack or placed (`Settled`), and a neighbour that was looked at and is still on the
stack bounds the `lowLink` of the node of the path that answers for the edge (`Looked`,
with `Covers`). So when a node closes with `lowLink = idx`, no edge leads from its
component to a node below it on the stack: ids follow edges. `Led` is about what leads
where: each node of the path leads to all that is above it on the stack (`Below`), each
node on the stack leads to one of the path that was met no later (`Back`), and its `lowLink`
is the number of a node on the stack that it leads to (`LowLinkOnStack`, now
inductive). So what is closed leads to and fro (`SameIsMutual`); that components which
lead to each other are one follows from the ids that follow the edges.

**Static index.** For `StaticIndex`, which finds the components of any graph, condenses it,
and walks the result. `StaticIdsFollowEdges`, `StaticLowLinkOnStack` and
`StaticComponentsAreMutual` come from the two invariants. The hypergraph has edges to
lesser ids only, so the walk keeps that of `GrailSpec`: `StaticIntervalsNest`. For this
every node must have an id that the index knows: none is left on the stack when
the last search ends, and there are no more ids than nodes (`AllUsed`, `EnoughIds`).
`StaticEveryoneRanked` needs `RankInv`: a root is still to be walked, on the stack or
ranked (`Walked`), and ranks are given once each, without gaps (`Counting`). When the
stack and `roots` are empty all roots are ranked and the ranked ones are closed under the
edges; a component that is not would have an edge in from one with a greater id that is
not either, and the greatest of these would be a root. `StaticNeverRulesOut` takes
`GrailNeverRulesOut` back to nodes, at every moment at which the first node's component
has its intervals; `StaticNoMeansNoPath` states it of the finished index with the exact
meaning of YES. Assumed: `NodesAssumption`, `PairsAssumption`, `LableAssumption`, `IdsOfNodes`.

**Storage.** `StoreIsSound` and `StoreIsEdgeLists` hold for `StoreSpec`, any sequence of
calls of `insertNeighbors`; the rest for `GraphLoad`, any graph file.
`NodesInBuffer` alone is not inductive: that the five bytes `testBufferCapacity`
gives away are never used follows from `BufferFit`, the fill indicator being a
multiple of 16 and the size 0, 4 or 8 modulo 16. `LinksCurrent` needs that list
nodes lie below the fill indicator (`NodesBelowFill`, so a new one is further on
than all others), that the table's tails lead to list nodes (`TailsInBuffer`), and
that the pointer held is the owner's tail (`HeldIsLast`).
For what the lists hold, `UnrolledEquation` shows that the recursive function of `ListFrom`
exists, from the last list node backwards. `Owners` says whose a list node is and that
only a list's last has no link; so a step leaves every list as it is (`ListsStay`), resizes
included, or puts one neighbour behind the owner's list (`ListGrows`). `HashRight` adds that
a table's keys are its list's neighbours and its offsets lead to their holders, which gives
`HashAlwaysFindsHolder`, and makes each step one of `EdgeLists` or a stutter
(`ListsAreAbstract`). `LoadIsStore` carries this over: `LoadImplementsEdgeLists`.
`GraphIsLoaded` rests on `Contents`: each edge read so far is in the lists of a side, in
`newNeighborTable`, or in the part of the chunk that is still to be dissected. It needs
that no row of a chunk is left as `malloc` gave it (`ChunkIsLines`): the last newline is
blanked exactly when the S was read. For this the byte counts have to be numbers
(`BytesTyped`, induction over the sets of lines that the fold of `Bytes` goes through).
Assumed: `SizesAssumption` (what the code's constants satisfy), `NodesAssumption`,
`FilesAssumption` (no line is longer than a chunk).

**Hash.** `EveryAddedIsFound` and `EveryBucketFreedOnce`. The invariant `HashInv` says
that a bucket is pointed to by exactly the cells that agree with its first one modulo its
width (`CellsOfBuckets`), that an entry lies in a bucket its hash belongs to
(`EntriesInPlace`), that an added key is in a bucket or waits in `entryTable`
(`AddedStored`), and that the table has room for the entries of the next split
(`RoomForRest`). A split halves a remainder class, a doubling copies it; both are
lemmas on remainders. The recursive function `Frees` exists, since a cell is decided by
those before it (`FreesEquation`), and by induction on the cells a bucket is freed at its
first one and nowhere else (`FreedAtFirst`). Assumed: `WidthAssumption`, the arithmetic of
powers of two, which the provers do not have and TLC evaluates; any `Hash` of natural numbers.

**Checked by TLC only.** Everything under fairness: `Termination`, `Terminates`,
`ImplementsLiveExecutor`, `Loads`, `AddEnds`, which is out of the prover's reach. Every
safety property that a passing run checks is a theorem as well.

## 5. Assumptions and what is left out

* Parked start, and no early returns, for the barrier (section 3).
* `EndsWithF`: a workload's last Q line is followed by an F line, as in the shipped
  ones. Otherwise the poison batch answers queries on freed indexes.
* `TablesAssumption`. A line that names a greater node reads outside `ccindex`, which
  has no outcome to model.
* Memory is sequentially consistent, also for the reads of `timesUsedCounter`
  that the code makes without its mutex.
* An A line's `addEdge` and `insertNewEdge` are one step: all threads are parked.
* `FilesAssumption`: every line of the graph file fits a chunk, as
  `DatasetReader.h` asks. A file ends with a newline behind its S.
* `malloc` succeeds. `testBufferCapacity`'s five bytes are harmless for the sizes in
  `Buffer.h`, not for any.
* A number in the graph file has at most nine digits, so `nodeId` holds it.
* Not modelled: the digits of a number, workload line parsing, printing, opening and
  closing files (pure I/O); stacks and lists, used at their ends only, as sequences
  or sets; the string-keyed table's buckets, which work like those of
  `ExtendibleHash` while `UpdateIndex` lets its lookups miss; the serial drivers,
  which `main.c` does not call; freeing the graph.

## 6. Plan

The model covers the plan's components, and every safety property of the passing runs
is proved. What is left is what stands behind the liveness runs: for the search, the
loading and the hash table a measure that every step of a loop lowers, which is a safety
property where `Terminates`, `Loads` and `AddEnds` are not.
