\* Three merges of two components each, then two edges that link them all.
SPECIFICATION Spec
CONSTANTS
  Nodes <- SixNodes
  InitEdges <- Loop
  Adds <- ChainAdds
  Asks <- ChainAsks
  Versions <- Versions6
  MetricVal = 3
  MaxAdds = 5
  MaxQueries = 1
  MaxBatches = 1
CHECK_DEADLOCK FALSE
INVARIANT AnswersExact
