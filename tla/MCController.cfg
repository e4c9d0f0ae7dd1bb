SPECIFICATION Spec
CONSTANTS
  None = None
  p = p
  q = q
  task = task
  frozen = frozen
  c1 = c1
  c2 = c2
  x = x
  y = y
  Call = {c1, c2}
  Request <- MCRequest
  Place = {p, q}
  Content = {x, y}
  MaxChanges = 2
SYMMETRY Symmetry
INVARIANTS
  WorkIsAllowed
  EvidenceIsTrue
\* Calls end.
CHECK_DEADLOCK FALSE
