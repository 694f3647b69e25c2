SPECIFICATION Spec
CONSTANTS
  REC = REC
  KEY = KEY
  None = None
  Contents = {REC, KEY, T, F, V, "text"}
  TypeArgs = {None, T}
  Names = {F}
  Values = {V}
  Subscripts <- TwoSubscripts
  MaxElems = 3
  MaxItems = 2
CHECK_DEADLOCK FALSE
INVARIANTS
  ReloadKeepsRecords
  InsertLast
  CommentsKept
