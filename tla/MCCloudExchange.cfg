SPECIFICATION ExchangeSpec
CONSTANTS
  run1 = run1
  run2 = run2
  task = task
  set = set
  sonnet = sonnet
  opus = opus
  ann = ann
  bob = bob
  provider = provider
  acct = acct
  other = other
  id1 = id1
  id2 = id2
  long = long
  claim = claim
  item1 = item1
  item2 = item2
  item3 = item3
  garbage = garbage
  Run = {run1, run2}
  Package <- MCPackage
  Budget <- MCBudget
  Note <- MCNote
  Model = {sonnet, opus}
  Provider = {provider}
  Account = {acct, other}
  Human = {ann, bob}
  Transport <- MCTransport
  Garbage = {garbage}
  LongId = {long}
  OtherContext <- MCOtherContext
  OtherRequest <- MCOtherRequest
  MaxExchanges = 6
SYMMETRY Humans
INVARIANTS
  NothingLeavesUncleared
  AnswerIsAuthorized
  SameAnswerSameOrigin
CHECK_DEADLOCK FALSE
