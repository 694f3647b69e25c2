CONSTANTS
  Databases <- MCDatabases
  Queries <- MCQueries
  MaxQueries = 1
SPECIFICATION Spec
CHECK_DEADLOCK FALSE
INVARIANT
  AvgConcat
