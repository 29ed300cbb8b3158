\* Two edges between the same two components.
SPECIFICATION Spec
CONSTANTS
  Nodes <- FiveNodes
  InitEdges <- OnePair
  Adds <- MixedAdds
  Asks <- MixedAsks
  Versions <- Versions6
  MetricVal = 3
  MaxAdds = 5
  MaxQueries = 1
  MaxBatches = 1
CHECK_DEADLOCK FALSE
INVARIANT OldVersionStays
