SPECIFICATION Spec
CONSTANTS
  Procs = {p, q}
  Commands <- AnyCommand
  MinRecords = 2
  MaxRecords = 3
  MaxInit = 1
  Mode = 644
  TmpMode = 600
  NoFile = NoFile
  InitFiles <- AnyFile
  Writable = TRUE
  DiskFull = TRUE
  MayCrash = TRUE
PROPERTIES
  FileStays
  AllEnd
  ReplacesAtomically
CHECK_DEADLOCK FALSE
