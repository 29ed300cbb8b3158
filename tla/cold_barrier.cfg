\* The same start as cold_start, without early returns from a wait.
SPECIFICATION Spec
CONSTANTS
  Workers = {w1, w2}
  MaxQueries = 1
  MaxBatches = 1
  GraphTypes = {"S"}
  MetricVal = 3
  EndsWithF = TRUE
  ParkedBound = 0
INVARIANT PrintedComplete
SYMMETRY WorkerSymmetry
