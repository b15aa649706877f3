SPECIFICATION Spec
CONSTANTS
  c1 = c1
  c2 = c2
  d1 = d1
  x1 = x1
  i1 = i1
  Absent = Absent
  Chats = {c1, c2}
  Deletions = {d1}
  Clears = {x1}
  Ids = {i1}
  MaxOutages = 2
SYMMETRY Symmetric
INVARIANTS
  AnswerIsKept
  DeletedStaysDeleted
  SessionsAreListed
PROPERTY OnlyAppends
CHECK_DEADLOCK FALSE
