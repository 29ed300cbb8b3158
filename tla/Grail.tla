-------------------------------- MODULE Grail --------------------------------
(***************************************************************************)
(* The GRAIL index (Src/Indexes/grail.c) on the condensation of the graph  *)
(* (Src/HyperGraph/hyperGraph.c): each label is a depth-first walk from    *)
(* the root components that gives every component an interval              *)
(* [minRank, rank], rank being its place in post-order and minRank the     *)
(* least minRank of its neighbours.  A component whose interval begins     *)
(* before that of another, or ends before it begins, does not lead to it.  *)
(*                                                                         *)
(* The walk keeps its own stack of frames, top first.  A component chooses *)
(* its next neighbour at random (rand), here any one not yet taken.        *)
(***************************************************************************)
EXTENDS Integers, Sequences, FiniteSets

CONSTANTS
  Ids,        \* the component ids there may be, 1 .. n
  LableCount  \* DEFAULT_LABLE_COUNT: how many labels are built

ASSUME IdsAssumption == IsFiniteSet(Ids) /\ Ids \subseteq Nat \ {0}
ASSUME LableAssumption == LableCount \in Nat \ {0}

VARIABLES
  components,  \* the ids in use, 1 .. size - 1
  hEdges,      \* the neighbour tables of the hypergraph
  rootNodes,   \* its components that no edge leads to
  lable,       \* the label being built; 0 before the first
  roots,       \* the root nodes still to be started from
  gStack,      \* the frames: a component, and the least minRank seen below it
  rankCounter,
  expanded,    \* of each component: the neighbours taken
  tagsTable    \* the index: of each label and component [minRank, rank]

hyperGraph == <<components, hEdges, rootNodes>>
grailVars  == <<hyperGraph, lable, roots, gStack, rankCounter, expanded, tagsTable>>

-----------------------------------------------------------------------------
YES   == 2
MAYBE == 1
NO    == 0
Unset == [minRank |-> -1, rank |-> -1]

Neighbors(c) == {d \in Ids : <<c, d>> \in hEdges}
Labels       == 1 .. LableCount

\* The label under construction.
Tag(c) == tagsTable[lable][c]

\* A label is begun: nothing expanded, ranks from 1, all roots to go.
BeginLable(n, from) ==
  /\ lable' = n
  /\ roots' = IF n \in Labels THEN from ELSE {}
  /\ rankCounter' = 1
  /\ expanded' = [c \in Ids |-> {}]
  /\ gStack' = <<>>

\* allocateGrail, intiGrailIndex and the first round of the loop.
buildGrailIndex(from) ==
  /\ tagsTable' = [i \in Labels |-> [c \in Ids |-> Unset]]
  /\ BeginLable(1, from)

Frame(c, min) == [node |-> c, min |-> min]

StartRoot ==
  /\ lable \in Labels /\ gStack = <<>>
  /\ \E r \in roots :
       /\ \A q \in roots : r <= q
       /\ roots' = roots \ {r}
       /\ gStack' = <<Frame(r, rankCounter)>>
       /\ tagsTable' = [tagsTable EXCEPT ![lable][r].minRank = -1]
  /\ UNCHANGED <<hyperGraph, lable, rankCounter, expanded>>

\* The parent's frame takes the least minRank of its children.
Lowered(frame, min) ==
  IF frame.min = -1 \/ min < frame.min THEN [frame EXCEPT !.min = min] ELSE frame

\* The frames below the top one, after it finished with this minRank.
Handed(min) ==
  LET below == Tail(gStack)
  IN IF below = <<>> THEN below ELSE [below EXCEPT ![1] = Lowered(@, min)]

\* The top component gets its interval and its frame goes.
Rank(min) ==
  /\ tagsTable' = [tagsTable EXCEPT ![lable][Head(gStack).node] =
                     [minRank |-> min, rank |-> rankCounter]]
  /\ gStack' = Handed(min)
  /\ rankCounter' = rankCounter + 1
  /\ UNCHANGED <<hyperGraph, lable, roots, expanded>>

\* NO_OUTGOING_EDGE
RankLeaf ==
  /\ lable \in Labels /\ gStack # <<>>
  /\ Neighbors(Head(gStack).node) = {}
  /\ Rank(rankCounter)

\* ALL_NEIGHTBORS_EXPANDED
RankInner ==
  /\ lable \in Labels /\ gStack # <<>>
  /\ LET c == Head(gStack).node
     IN Neighbors(c) # {} /\ expanded[c] = Neighbors(c)
  /\ Rank(Head(gStack).min)

\* Mutant of Look: a neighbour that has its interval already is passed over.
LookPast(c, d) ==
  gStack' = IF Tag(d).minRank = -1 THEN <<Frame(d, -1)>> \o gStack ELSE gStack

\* A neighbour without an interval is walked first; one with an interval
\* lowers the minRank of the component.
Look(c, d) ==
  gStack' = IF Tag(d).minRank = -1
            THEN <<Frame(d, -1)>> \o gStack
            ELSE [gStack EXCEPT ![1] = Lowered(@, Tag(d).minRank)]

\* Mutant of Visit: the offset stays, the neighbour can be chosen again.
VisitAgain ==
  /\ lable \in Labels /\ gStack # <<>>
  /\ LET c == Head(gStack).node
     IN \E d \in Neighbors(c) \ expanded[c] : Look(c, d)
  /\ UNCHANGED <<hyperGraph, lable, roots, rankCounter, expanded, tagsTable>>

\* chooseRandomNodeNeightborToExpand
Visit ==
  /\ lable \in Labels /\ gStack # <<>>
  /\ LET c == Head(gStack).node
     IN \E d \in Neighbors(c) \ expanded[c] :
          /\ expanded' = [expanded EXCEPT ![c] = @ \cup {d}]
          /\ Look(c, d)
  /\ UNCHANGED <<hyperGraph, lable, roots, rankCounter, tagsTable>>

NextLable ==
  /\ lable \in Labels /\ gStack = <<>> /\ roots = {}
  /\ BeginLable(lable + 1, rootNodes)
  /\ UNCHANGED <<hyperGraph, tagsTable>>

GrailNext == StartRoot \/ RankLeaf \/ RankInner \/ Visit \/ NextLable

GrailDone == lable = LableCount + 1

-----------------------------------------------------------------------------
\* Mutant of compareLables: an interval that begins with the other's is none.
compareLablesStrict(s, f) ==
  IF s.minRank >= f.minRank \/ s.rank < f.minRank THEN NO ELSE MAYBE

compareLables(s, f) ==
  IF s.minRank > f.minRank \/ s.rank < f.minRank THEN NO ELSE MAYBE

\* isReachableGrailIndex, for the components of the two nodes.
isReachable(c, d) ==
  IF c = d THEN YES
  ELSE IF \E i \in Labels : compareLables(tagsTable[i][c], tagsTable[i][d]) = NO
       THEN NO ELSE MAYBE

-----------------------------------------------------------------------------
(* The index on any acyclic hypergraph whose edges lead to lesser ids. *)

Edges == {e \in Ids \X Ids : e[2] < e[1]}

GrailInit ==
  /\ components = Ids
  /\ hEdges \in SUBSET Edges
  /\ rootNodes = {c \in Ids : \A e \in hEdges : e[2] # c}
  /\ lable = 1 /\ roots = rootNodes /\ gStack = <<>> /\ rankCounter = 1
  /\ expanded = [c \in Ids |-> {}]
  /\ tagsTable = [i \in Labels |-> [c \in Ids |-> Unset]]

GrailSpec == GrailInit /\ [][GrailNext]_grailVars

-----------------------------------------------------------------------------
(* Properties *)

\* The intervals of a finished component and of its neighbours nest, in every
\* label and at every moment of the walk: whatever a component leads to lies in
\* its interval.
IntervalsNest ==
  \A i \in Labels : \A e \in hEdges :
    LET s == tagsTable[i][e[1]]
        f == tagsTable[i][e[2]]
    IN s # Unset => /\ s.minRank <= f.minRank /\ f.rank < s.rank
                    /\ 1 <= f.minRank /\ f.minRank <= f.rank
=============================================================================
