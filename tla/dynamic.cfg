\* A and Q lines in any order over four components and two batches.
SPECIFICATION Spec
CONSTANTS
  Nodes <- FiveNodes
  InitEdges <- OnePair
  Adds <- MixedAdds
  Asks <- MixedAsks
  Versions <- Versions5
  MetricVal = 3
  MaxAdds = 3
  MaxQueries = 2
  MaxBatches = 2
CHECK_DEADLOCK FALSE
INVARIANTS SnapshotVisible FoundIsExact ExactUpToTwoCells NoFalseMerge
PROPERTIES IndexSpec UsedIndexKept
