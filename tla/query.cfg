CONSTANTS
  Databases <- MCDatabases
  Queries <- MCQueries
  MaxQueries = 2
SPECIFICATION Spec
CHECK_DEADLOCK FALSE
INVARIANTS
  JoinExact
  GroupExact
  RandomExact
  AggregateConcat
PROPERTIES
  QueryKeepsFields
