CONSTANTS
  numCPU = 2
  Cpu <- MCCpu
  Proc <- MCProc
  Files <- MCFiles
  DummyHead = DummyHead
  NULL = NULL
  Capacity = 3
  MaxArrival = 1
  MaxTime = 2
SPECIFICATION Spec
INVARIANT SubprocessOnItsCpu
