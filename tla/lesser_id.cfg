\* A component that joins two others, which have been merged before.
SPECIFICATION Spec
CONSTANTS
  Nodes <- SixNodes
  InitEdges <- Loop
  Adds <- ChainAdds
  Asks <- ChainAsks
  Versions <- Versions6
  MetricVal = 3
  MaxAdds = 5
  MaxQueries = 1
  MaxBatches = 1
CHECK_DEADLOCK FALSE
INVARIANT LesserId
