CONSTANTS
  numCPU = 2
  Cpu <- MCCpu
  Proc <- MCProc
  Files <- MCFiles
  DummyHead = DummyHead
  NULL = NULL
  Capacity = 3
  MaxArrival = 2
  MaxTime = 3
SPECIFICATION FairSpec
INVARIANTS
  TwoReportInv
  MinIsRoot
  NoArrivalMissed
  FinishedWithLastPart
  RemainingIsCounted
  AnnouncedOnSwitch
  PartsAreApart
  RoomForAll
  PrintsWhatHappened
PROPERTIES
  ImplementsQueueClient
  ImplementsSRT
  Terminates
