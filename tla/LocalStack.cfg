SPECIFICATION Spec
CONSTANTS
  Invocation = {c1, c2}
  Together <- OneOrTwo
  base = base
  member = member
  older = older
  newer = newer
  Branch = {base, member}
  Chain <- TheChain
  Commit = {older, newer}
  Ancestor <- TheHistory
  Binding = {mrs1, mrs2}
  Nil = Nil
  MaxOther = 2
INVARIANTS
  TypeOK
  ViewIsASnapshot
PROPERTIES
  ImplementsGuardedWrite
  KeepsBindings
  ChangesWhatWasInspected
SYMMETRY
  Symmetry
CHECK_DEADLOCK FALSE
