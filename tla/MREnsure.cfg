SPECIFICATION Spec
CONSTANTS
  Invocation = {c1, c2}
  IID = {i1, i2}
  Content = {asked, other}
  Meta = {plain, selected}
  DefaultMeta = plain
  NoSelection = NoSelection
  Sha = {s1, s2}
  Nil = Nil
  MaxOther = 1
INVARIANTS
  TypeOK
  RetriesNeverDuplicate
PROPERTIES
  ImplementsGuardedWrite
SYMMETRY
  Symmetry
CHECK_DEADLOCK FALSE
