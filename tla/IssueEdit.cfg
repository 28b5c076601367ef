SPECIFICATION Spec
CONSTANTS
  Invocation = {c1}
  Title = {t1, t2}
  Name = {n1, n2}
  Label = {l1, l2}
  Nil = Nil
  MaxOther = 2
INVARIANTS
  TypeOK
  SuccessIsTheWholeEdit
PROPERTIES
  ImplementsGuardedWrite
  EditsTheReviewed
SYMMETRY
  Symmetry
CHECK_DEADLOCK FALSE
