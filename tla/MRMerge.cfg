SPECIFICATION Spec
CONSTANTS
  Invocation = {c1}
  Sha = {s1, s2}
  Branch = {main, next}
  PID = {p1, p2}
  Nil = Nil
  MaxOther = 2
INVARIANTS
  TypeOK
PROPERTIES
  ImplementsGuardedWrite
  MergesWhatWasChecked
SYMMETRY
  Symmetry
CHECK_DEADLOCK FALSE
