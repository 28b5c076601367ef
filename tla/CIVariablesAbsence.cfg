SPECIFICATION Spec
CONSTANTS
  Invocation = {c1}
  Key = {key, f1, f2}
  Target = key
  Value = {v1, v2}
  PageSize = 1
  MaxPages = 3
  Nil = Nil
  MaxOther = 2
INVARIANTS
  CreatesOnlyWhatWasAbsent
SYMMETRY
  Symmetry
CHECK_DEADLOCK FALSE
