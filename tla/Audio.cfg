CONSTANTS
  Kinds <- MCKinds
  Values = {2}
  Lengths = {2}
  Channels = {1, 2}
  Hops = 3
  MaxAudioCalls = 8
  MaxNodes = 4
  MaxEdges = 1
  MaxContexts = 1
  MaxBuffers = 2
SPECIFICATION AudioSpec
PROPERTIES
  RendersTheGraph
CHECK_DEADLOCK FALSE
