CONSTANTS
  c1 = c1
  d1 = d1
  d2 = d2
  v1 = v1
  v2 = v2
  v3 = v3
  v4 = v4
  Invocation = {c1}
  Dir <- MCDir
  Version <- MCVersion
  listed <- MCListed
  Malformed = {v2}
  Kind = {"job", "package", "raw"}
  folder = folder
  item = item
  MaxOther = 2
SPECIFICATION Spec
CHECK_DEADLOCK FALSE
INVARIANTS
  TypeOK
  ReceiptIsTrue
  WholeOrAbsent
PROPERTIES
  TouchesOnlyOwn
SYMMETRY
  Symmetry
