CONSTANTS
  InputFiles <- MCInputFiles
  UIntSize = 4
  ULongSize = 16
SPECIFICATION Spec
INVARIANTS
  ReaderInv
  ListIsFile
  HandsOver
  FailsOnlyIf
