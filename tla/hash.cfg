\* Buckets of two entries, directories of one, two and four cells to begin with.
SPECIFICATION FairSpec
CONSTANTS
  Keys <- MCKeys
  Hash <- MCHash
  NoEntry = NoEntry
  BucketSize = 2
  StartDepths = {0, 1, 2}
  MaxDepth = 5
INVARIANTS AddedIsFound BucketsFreedOnce
PROPERTIES AddEnds
