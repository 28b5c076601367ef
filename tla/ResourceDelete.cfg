SPECIFICATION Spec
CONSTANTS
  Invocation = {c1, c2}
  Rev = {r1, r2, r3}
  Nil = Nil
  MaxOther = 2
INVARIANTS
  TypeOK
PROPERTIES
  ImplementsGuardedWrite
  DeletesTheReviewed
SYMMETRY
  Symmetry
CHECK_DEADLOCK FALSE
