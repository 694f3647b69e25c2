SPECIFICATION Spec
CONSTANTS
  Procs = {p, q, r}
  Commands <- Checked
  MinRecords = 1
  MaxRecords = 2
  MaxInit = 2
  Mode = 644
  TmpMode = 600
  NoFile = NoFile
  InitFiles <- GoodFile
  Writable = TRUE
  DiskFull = FALSE
  MayCrash = TRUE
INVARIANTS
  FileWhole
  IntegrityKept
  NoLostUpdate
  AttributesKept
CHECK_DEADLOCK FALSE
SYMMETRY Symmetry
