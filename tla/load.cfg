\* List nodes of two neighbours, chunks of at most two or three lines.
SPECIFICATION FairSpec
CONSTANTS
  Nodes <- FewNodes
  NEIGHBOR_SIZE_ARRAY = 2
  NodeBytes = 64
  METADATA_SIZE = 32
  STARTBUFFERSIZE = 100
  INDEX_START_SIZE = 2
  Files <- SmallFiles
  Digits <- Characters
  CHUNK = 10
  MaxAdds = 1
INVARIANTS NodesInBuffer LinksCurrent HashFindsHolder LoadedGraph
PROPERTIES ImplementsEdgeLists Loads
