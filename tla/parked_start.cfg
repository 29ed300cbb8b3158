\* Every thread has parked before the first line is read; no early returns.
SPECIFICATION ParkedSpec
CONSTANTS
  Workers = {w1, w2, w3}
  MaxQueries = 2
  MaxBatches = 2
  GraphTypes = {"S", "D"}
  MetricVal = 3
  EndsWithF = TRUE
  ParkedBound = 0
INVARIANTS Barrier PrintedComplete LiveWhileBusy UsesWithinQueries
PROPERTIES ImplementsLiveExecutor
