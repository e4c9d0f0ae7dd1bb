SPECIFICATION Spec
CONSTANTS
  c1 = c1
  c2 = c2
  bounded = bounded
  run = run
  task = task
  r1 = r1
  r2 = r2
  p1 = p1
  p2 = p2
  p3 = p3
  claim = claim
  words = words
  others = others
  metrics = metrics
  sources = sources
  elsewhere = elsewhere
  None = None
  RuleSeverity <- MCRuleSeverity
  CodeOrder <- MCCodeOrder
  Failures <- MCFailures
  Context <- MCContext
  Inputs <- MCInputs
  Upstream = {metrics}
  Proposal <- MCProposal
  CheckSet <- MCCheckSet
  Opinion <- MCOpinion
  MaxResults = 2
  MaxRecords = 5
INVARIANTS
  ConclusionIsEarned
  ReasonsAreTheFailures
  DeadEnds
CHECK_DEADLOCK FALSE
