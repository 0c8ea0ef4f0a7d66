CONSTANTS
  numCPU = 3
  Cpu <- MCCpu
  Proc <- MCProc
  Files <- MCFiles
  DummyHead = DummyHead
  NULL = NULL
  Capacity = 6
SPECIFICATION Spec
INVARIANT RoomForAll
