CONSTANTS
  Handles = {h1, h2}
  Names = {readme, data, docs}
  Folders = {docs}
  Paths <- MCPaths
  RootDir = 5
  MaxAnode = 8
  Room = 2
  Ends = {0, 1}
  Dir = Dir
  None = None
  Allow = {}
  readme = readme
  data = data
  docs = docs
SPECIFICATION Spec
INVARIANTS OneEntryEach ReferencesCurrent OffsetsInside WritersAlone
PROPERTY ImplementsFileTable
CHECK_DEADLOCK FALSE
SYMMETRY Symmetry
