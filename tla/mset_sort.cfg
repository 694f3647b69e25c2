SPECIFICATION Spec
CONSTANTS
  a = a
  b = b
  c = c
  e = e
  Data = {a, b, c}
  Types = {record, comment}
  MSET_ANY = any
  MSET_COMMENT = comment
  Key <- ThreeKeys
  Absent = 0
  NULL = NULL
  SIZE_MAX = 9
  CountBound = 6
  Calls = {"insert_at", "append", "insert_after", "remove_at", "sort", "dup"}
CHECK_DEADLOCK FALSE
SYMMETRY EqualKeys
PROPERTIES
  SortStable
