SPECIFICATION Spec
CONSTANTS
  Caller = {p1, p2}
  Path = {d1, d2, d3, d4}
  i1 = i1
  i2 = i2
  c1 = c1
  c2 = c2
  c3 = c3
  r1 = r1
  r2 = r2
  q1 = q1
  q2 = q2
  amb = amb
  den = den
  oth = oth
  sonnet = sonnet
  opus = opus
  acct = acct
  other = other
  elsewhere = elsewhere
  m1 = m1
  m2 = m2
  Pass = Pass
  Garbage = Garbage
  None = None
  Input <- MCInput
  Context <- MCContext
  InputOf <- MCInputOf
  RefsOf <- MCRefsOf
  MetricsOf <- MCMetricsOf
  Rule <- MCRule
  Failure <- MCFailure
  FailureRun <- MCFailureRun
  RelatedTo <- MCRelatedTo
  Ambiguous <- MCAmbiguous
  PrepareArg <- MCPrepareArg
  ResumeArg <- MCResumeArg
  Supplied <- MCSupplied
SYMMETRY Symmetry
INVARIANTS
  ChainClosed
  ApprovalEarned
  ManifestDeterminesResult
  NoLateRejection
  ReturnedStays
CHECK_DEADLOCK FALSE
