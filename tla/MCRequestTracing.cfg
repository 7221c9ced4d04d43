CONSTANTS
  Requests = {r1, r2}
  Workers = {w1, w2}
  Stacks <- MCStacks
  Ids = {a, b, c}
  Statuses = {200}
  MaxSuspends = 1
  Own = Own
  None = None
SYMMETRY Symmetry
SPECIFICATION Spec
CHECK_DEADLOCK FALSE
INVARIANTS ScopesNested SpansChained EventsInOwnSpan LoggedOnce Correlated StatusOnEverySpan
PROPERTIES AnswerUntouched
