SPECIFICATION Spec
CONSTANTS
  Procs = {p}
  Commands <- Sorting
  MinRecords = 2
  MaxRecords = 3
  MaxInit = 3
  Mode = 644
  TmpMode = 600
  NoFile = NoFile
  InitFiles <- GoodFile
  Writable = TRUE
  DiskFull = FALSE
  MayCrash = FALSE
PROPERTIES
  SortedWhenSound
CHECK_DEADLOCK FALSE
