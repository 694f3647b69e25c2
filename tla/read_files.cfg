SPECIFICATION Spec
CONSTANTS
  REC = REC
  None = None
  Contents = {Name, REC, T, U, 1, 2, 3, 4, 5, 6}
  Name = Name
  TypeNames = {T, U}
  MaxLines = 6
  MaxFiles = 2
CHECK_DEADLOCK FALSE
INVARIANTS
  NothingLost
  RoundTrip
  SortedRoundTrip
  OrderKept
