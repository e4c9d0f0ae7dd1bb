CONSTANTS
  Publisher = {p1, p2}
  Folder <- MCFolder
  DirName <- MCDirName
  Top = "top"
  Path <- MCPath
  DirOf <- MCDirOf
  InRepository = {}
  Manifest <- MCManifest
  Final <- MCFinal
  Identity <- MCIdentity
  IdentityOf <- MCIdentityOf
  Cites <- MCCites
  Request <- RetryRequest
  InitRoot = "r1"
  InitDirAt <- MCInitDirAt
  MaxFaults = 2
  Torn = Torn
  None = None
SPECIFICATION Spec
INVARIANTS NoTornDestination OwnTempOnly FinalAfterManifest SuccessIsDurable
CHECK_DEADLOCK FALSE
