SPECIFICATION Spec
CONSTANTS
  a = a
  b = b
  c = c
  Names = {a, b, c}
  NoName = NoName
  NumClusters = 3
  NumSlots = 2
  ClusterSize = 2
  MaxSize = 4
  Misuse = {}
SYMMETRY Symmetry
INVARIANTS ClustersOwnedOnce PositionInFile DescriptorsAgree
