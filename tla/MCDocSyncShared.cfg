SPECIFICATION Spec
CONSTANTS
  q1 = q1
  q2 = q2
  q3 = q3
  q4 = q4
  d1 = d1
  d2 = d2
  Queries = {q1, q2}
  Docs = {d1, d2}
  Of <- Document
  Shared = {d1}
  Nothing = Nothing
  None = None
INVARIANTS
  AnswersOwnText
CHECK_DEADLOCK FALSE
