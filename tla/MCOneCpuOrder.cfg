CONSTANTS
  Cpu <- MCCpu
  Proc <- MCProc
  Files <- MCFiles
  DummyHead = DummyHead
  NULL = NULL
  Capacity = 4
  MaxArrival = 2
  MaxTime = 3
SPECIFICATION Spec
INVARIANT PidOrdersArrivals
