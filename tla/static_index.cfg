\* Every graph of up to nine edges over five nodes, two labels.
SPECIFICATION Spec
CONSTANTS
  Nodes <- FiveNodes
  Pairs <- Ways
  Ids <- FiveIds
  LableCount = 2
INVARIANTS LowLinkOnStack ComponentsAreMutual IdsFollowEdges IntervalsNest EveryoneRanked NoMeansNoPath
PROPERTY Terminates
