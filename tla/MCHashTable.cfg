CONSTANTS
  Key = {1, 2, 3}
  Value = {1, 2}
  Hashes <- MCHashes
  MinimumCapacity = 1
  Sizes = {0, 2}
  Reserved = {16}
  MaxFailures = 1
  NULL = NULL
SPECIFICATION Spec
INVARIANTS
  TableInv
  NodesInPlace
  SizeCounts
PROPERTY
  ImplementsTable
