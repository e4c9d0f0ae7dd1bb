SPECIFICATION Spec
CONSTANTS
  None = None
  Foreign = Foreign
  l1 = l1
  l2 = l2
  l3 = l3
  home = home
  away = away
  few = few
  many = many
  empty = empty
  result = result
  AliasOf <- MCAliasOf
  SizeOf <- MCSizeOf
  DiscoverArg <- MCDiscoverArg
  Annotation <- MCAnnotation
  ChainArg <- MCChainArg
  LocalArg <- MCLocalArg
  Calls = {0, 1}
  Limit = {1, 4}
  Result = {result}
INVARIANTS
  OneLineage
  NoSourceLost
  AdmissionSound
\* A caller stops once prepare has accepted.
CHECK_DEADLOCK FALSE
