CONSTANTS
  Place = {"a", "b", "c"}
  Manifest = {"m1", "m2"}
  Final = {"f1", "f2"}
  Identity = {"m1", "m2", "f1", "f2"}
  IdentityOf <- MCIdentityOf
  Cites <- MCCites
  None = None
  Call = {p, q, r}
  Request <- MCRequest
  InputLimit = 2
  ResponseLimit = 1
SYMMETRY Symmetric
CHECK_DEADLOCK FALSE
SPECIFICATION CallSpec
INVARIANTS FinalHasManifest ReportIsTrue ReportedOnce
PROPERTIES SettledIsPermanent
