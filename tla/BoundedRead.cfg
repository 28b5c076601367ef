CONSTANTS
  c1 = c1
  r1 = r1
  r2 = r2
  Reader = {c1}
  Kind = {"list", "newest", "threads", "snippets", "jobs", "open", "ci", "board", "watch"}
  Limit = {2, 4}
  PageCap = 2
  MaxPages = 2
  MaxTries = 2
  MaxTraces = 1
  MaxPolls = 3
  MaxItems = 4
  MaxOther = 2
  Rev = {r1, r2}
  Created <- MCCreated
  Unselected = {2}
SPECIFICATION Spec
CHECK_DEADLOCK FALSE
INVARIANTS
  TypeOK
  CompleteIsWhole
  ShowsTheLatest
  OneEvidenceWindow
PROPERTIES
  EveryReadAnswers
