SPECIFICATION Spec
CONSTANTS
  Cases <- SmallCases
  Junk = {0, 1}
  IntMax = 127
  LongMax = 511
INVARIANTS
  AnyFieldSelects
  SelectedHasWitness
  ComparisonOrder
  TextIsFresh
