SPECIFICATION Spec
CONSTANTS
  Modes = {"plain", "serializer", "multi_soc"}
  Files <- TwoFiles
  NodesOf <- NodesOfTwo
  SocCount = 2
  MaxLoads = 2
  MaxContexts = 3
INVARIANTS
  NodesHaveContexts
  ObjectsOfTheLoadedLibrary
  DlcHoldsEverySoc
  NodesServed
  MappedNodesKeepWeights
CHECK_DEADLOCK FALSE
