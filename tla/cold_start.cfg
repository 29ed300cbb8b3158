\* Threads start in any order with main, and waits may return early.
SPECIFICATION PosixSpec
CONSTANTS
  Workers = {w1, w2}
  MaxQueries = 2
  MaxBatches = 2
  GraphTypes = {"S", "D"}
  MetricVal = 3
  EndsWithF = TRUE
  ParkedBound = 4
INVARIANTS TypeOK HandedOutOnce QueuedKeepsOpen NoLostWakeup OnePoisonEach
PROPERTY Termination
