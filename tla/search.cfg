\* Every graph of up to eight edges, each absent, passed over or not.
SPECIFICATION Spec
CONSTANTS
  Nodes <- FiveNodes
  Pairs <- Ways
  Asks <- Ends
INVARIANTS LayersAreDistances NoEdgeMissed ResultIsDistance
PROPERTY Terminates
