SPECIFICATION Spec
CONSTANTS
  a = a
  b = b
  c = c
  e = e
  Data = {a, b, c, e}
  Types = {record, comment}
  MSET_ANY = any
  MSET_COMMENT = comment
  Key <- SameKeys
  Absent = 0
  NULL = NULL
  SIZE_MAX = 255
  CountBound = 12
  Calls = {"insert_at", "append", "append_typed", "insert_after", "dup", "iterate"}
SYMMETRY Symmetry
INVARIANTS
  CountsExact
  TraversalExact
  NeverAborts
PROPERTIES
  RemovalHitsCurrent
