SPECIFICATION RetrievalSpec
CONSTANTS
  IndexTasks = {1, 2, 3}
  Sources <- SharedName
  ChunkCount <- TwoChunks
  Configured = {}
  Backends = {"memory"}
  IndexCrashes = 0
PROPERTY OnlyOwnRemoved
CHECK_DEADLOCK FALSE
