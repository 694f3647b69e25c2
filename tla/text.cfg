SPECIFICATION Spec
CONSTANTS
  Topics <- MCTopics
  EndOfRecord <- MCEndOfRecord
  IntMax = 31
  LongMax = 1023
  FexMaxElems = 3
CHECK_DEADLOCK FALSE
INVARIANTS
  ValueRoundTrip
  Reparse
  FexExact
  TypeMeaning
  ValueOrder
  CsvRoundTrip
  NotRescanned
