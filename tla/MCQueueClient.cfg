CONSTANTS
  Cpu <- MCCpu
  Proc <- MCProc
  DummyHead = DummyHead
  NULL = NULL
  Capacity = 4
  Time = {0, 1, 2, 3}
SPECIFICATION Spec
INVARIANTS
  TypeOK
  HeapOrder
  RootIsMin
  IntactUnlessTied
  UndefinedOnlyIfTied
  QueueInv
CHECK_DEADLOCK FALSE
