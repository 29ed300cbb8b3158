----------------------------- MODULE GraphLoad -----------------------------
(***************************************************************************)
(* graphCreate (Src/Graph/graph.c): the graph file is read in chunks       *)
(* (Src/UtilityFuctions/datasetReader.c), and the edges of a chunk are     *)
(* inserted by source into the outgoing lists, then by target into the     *)
(* ingoing ones; and addEdge (Src/Graph/graphQA.c), which inserts one edge *)
(* of the workload on both sides.                                          *)
(*                                                                         *)
(* A file is the sequence of its edges; behind them it has the line S.  Of *)
(* the text only the bytes of each line are kept.                          *)
(***************************************************************************)
EXTENDS NeighborStore, FiniteSetsExt

CONSTANTS
  Files,   \* the graph files: sequences of pairs of nodes
  Digits,  \* the characters of each node's number
  CHUNK,   \* bytes read at once
  MaxAdds  \* bound: A lines that follow

\* "Chunk size must be at least as the longest line in characters"
\* (DatasetReader.h:17).
ASSUME FilesAssumption ==
  /\ Digits \in [Nodes -> Nat \ {0}] /\ CHUNK \in Nat /\ MaxAdds \in Nat
  /\ \A f \in Files :
       /\ f \in Seq(Nodes \X Nodes)
       /\ \A i \in DOMAIN f : Digits[f[i][1]] + Digits[f[i][2]] + 2 <= CHUNK

VARIABLES
  file,   \* the edges of the graph file
  line,   \* how many of its lines, with S, have been read
  chunk,  \* partGraph: the edges of the chunk in work
  counter,  \* how many of them have been handed to insertNeighbors
  phase,  \* what main does: read a chunk, insert it on a side, or wait for A lines
  added   \* the edges of the A lines so far

vars == <<storeVars, file, line, chunk, counter, phase, added>>

Init ==
  /\ StoreInit
  /\ file \in Files
  /\ line = 0 /\ chunk = <<>> /\ counter = 0 /\ phase = "read" /\ added = <<>>

-----------------------------------------------------------------------------
(* datasetReader.c *)

Lines == Len(file) + 1

LineBytes(i) == IF i = Lines THEN 2 ELSE Digits[file[i][1]] + Digits[file[i][2]] + 2

Bytes(k) == MapThenSumSet(LineBytes, line + 1 .. line + k)

\* The lines that lie whole in the next CHUNK bytes; fseek goes back to their end.
Whole == Max({0} \cup {k \in 1 .. Lines - line : Bytes(k) <= CHUNK})

\* Mutant of LastNewlineBlanked: the S at the end of a full chunk is not looked for.
BlankedWhenShort == Bytes(Lines - line) < CHUNK

\* The last newline is overwritten at the end of the file, and behind an S.
LastNewlineBlanked == Bytes(Lines - line) < CHUNK \/ line + Whole = Lines

countNewLine == IF LastNewlineBlanked THEN Whole - 1 ELSE Whole

\* A row of the table without a line of two numbers is whatever malloc left in it.
Rows ==
  LET edges == SubSeq(file, line + 1, Min({line + countNewLine, Len(file)}))
  IN  {edges \o stray : stray \in [1 .. countNewLine - Len(edges) -> Nodes \X Nodes]}

\* Mutant of ReadChunk: the file is set back behind the newlines that were counted.
ReadToCounted ==
  /\ phase = "read" /\ line < Lines
  /\ line' = line + countNewLine
  /\ chunk' \in Rows
  /\ phase' = "out" /\ counter' = 0
  /\ UNCHANGED <<storeVars, file, added>>

ReadChunk ==
  /\ phase = "read" /\ line < Lines
  /\ line' = line + Whole
  /\ chunk' \in Rows
  /\ phase' = "out" /\ counter' = 0
  /\ UNCHANGED <<storeVars, file, added>>

\* myfread returns EOF.
EndOfFile ==
  /\ phase = "read" /\ line = Lines
  /\ phase' = "ready"
  /\ UNCHANGED <<storeVars, file, line, chunk, counter, added>>

-----------------------------------------------------------------------------
(* graphCreate *)

\* The node whose list an edge goes into, on each side, and the one that it adds.
Owner(s, e) == IF s = "out" THEN e[1] ELSE e[2]
Other(s, e) == IF s = "out" THEN e[2] ELSE e[1]

\* Mutant of GroupSize: the group takes in the edge behind it.
GroupAndNext(s) ==
  Min({Len(chunk) - counter, 1 + Max({k \in 1 .. Len(chunk) - counter : \A i \in 1 .. k :
         Owner(s, chunk[counter + i]) = Owner(s, chunk[counter + 1])})})

\* The edges that follow one another and have the same owner.
GroupSize(s) ==
  Max({k \in 1 .. Len(chunk) - counter : \A i \in 1 .. k :
         Owner(s, chunk[counter + i]) = Owner(s, chunk[counter + 1])})

\* dissectChunkOutgoing, dissectChunkIngoing, and the call of insertNeighbors.
InsertGroup(s) ==
  /\ phase = s /\ counter < Len(chunk)
  /\ insertNeighbors(s, Owner(s, chunk[counter + 1]),
       [i \in 1 .. GroupSize(s) |-> Other(s, chunk[counter + i])])
  /\ counter' = counter + GroupSize(s)
  /\ UNCHANGED <<file, line, chunk, phase, added>>

NextPhase ==
  /\ phase \in Side /\ step = "idle" /\ counter = Len(chunk)
  /\ phase' = IF phase = "out" THEN "in" ELSE "read"
  /\ counter' = 0
  /\ UNCHANGED <<storeVars, file, line, chunk, added>>

Insert == StoreStep /\ UNCHANGED <<file, line, chunk, counter, phase, added>>

LoadStep == ReadChunk \/ EndOfFile \/ (\E s \in Side : InsertGroup(s)) \/ NextPhase \/ Insert

-----------------------------------------------------------------------------
(* addEdge, on nodes of the loaded graph *)

FoundDouble(u, v) ==
  /\ u < index["out"].size
  /\ v < biggestNode["in"]
  /\ index["out"].head[v] # -1
  /\ v \in DOMAIN hash[u]

Known(u) == u <= biggestNode["out"] /\ u <= biggestNode["in"]

AddLine(u, v) ==
  /\ phase = "ready" /\ step = "idle" /\ Len(added) < MaxAdds
  /\ Known(u) /\ Known(v)
  /\ added' = Append(added, <<u, v>>)
  /\ IF FoundDouble(u, v)
     THEN UNCHANGED <<storeVars, phase>>
     ELSE insertNeighbors("out", u, <<v>>) /\ phase' = "add"
  /\ UNCHANGED <<file, line, chunk, counter>>

AddIngoing ==
  /\ phase = "add"
  /\ LET e == added[Len(added)] IN insertNeighbors("in", e[2], <<e[1]>>)
  /\ phase' = "ready"
  /\ UNCHANGED <<file, line, chunk, counter, added>>

\* The workload may end after any line.
WorkloadEnds == phase = "ready" /\ step = "idle" /\ UNCHANGED vars

Next == LoadStep \/ (\E u, v \in Nodes : AddLine(u, v)) \/ AddIngoing \/ WorkloadEnds

Spec == Init /\ [][Next]_vars

\* The one thread runs; A lines need not come.
FairSpec == Spec /\ WF_vars(LoadStep)

-----------------------------------------------------------------------------
(* Properties *)

\* Between two insertions, once the file is read: both sides have exactly the edges
\* of the file and of the A lines, wherever the chunks were cut.
LoadedGraph ==
  phase = "ready" /\ step = "idle" =>
    \A u, v \in Nodes :
      LET has == <<u, v>> \in Range(file) \cup Range(added) IN
        /\ v \in Range(List("out", u)) <=> has
        /\ u \in Range(List("in", v)) <=> has

\* graphCreate returns: each chunk takes at least one line.
Loads == <>(phase = "ready")
=============================================================================
