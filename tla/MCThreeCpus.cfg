CONSTANTS
  numCPU = 3
  Cpu <- MCCpu
  Proc <- MCProc
  Files <- MCFiles
  DummyHead = DummyHead
  NULL = NULL
  Capacity = 4
  MaxArrival = 1
  MaxTime = 3
SPECIFICATION Spec
INVARIANTS
  SubsAreCounted
  FinishedWithLastPart
PROPERTY
  ImplementsSRT
