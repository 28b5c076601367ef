SPECIFICATION Spec
CONSTANTS
  Invocation = {c1}
  Action = {"create", "comment", "note", "set", "transition"}
  MaxOther = 3
INVARIANTS
  TypeOK
PROPERTIES
  ImplementsGuardedWrite
  NotesWhatWasReviewed
CHECK_DEADLOCK FALSE
