CONSTANTS
  NFat = 5
  ClusterSize = 2
  RootEntries = 3
  PerCluster = 3
  Names = {readme, docs, data}
  LfnParts <- MCLfnParts
  Objects = {o1, o2}
  Paths <- MCPaths
  Folders = {docs, data}
  Accesses = {{"r"}, {"w"}}
  Ends = {0, 3}
  Grants = {2}
  Dir = Dir
  None = None
  Allow = {}
  readme = readme
  docs = docs
  data = data
SPECIFICATION Spec
INVARIANTS ClustersAccounted LongNamesWhole HandlesCurrent WritersAlone
PROPERTY ImplementsFileTable
CHECK_DEADLOCK FALSE
SYMMETRY Symmetry
