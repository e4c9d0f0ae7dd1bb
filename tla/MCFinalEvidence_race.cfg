CONSTANTS
  Publisher = {p1, p2}
  Folder <- MCFolder
  DirName <- MCDirName
  Top = "top"
  Path <- MCPath
  DirOf <- MCDirOf
  InRepository = {"c"}
  Manifest <- MCManifest
  Final <- MCFinal
  Identity <- MCIdentity
  IdentityOf <- MCIdentityOf
  Cites <- MCCites
  Request <- MCRequest
  InitRoot = "r1"
  InitDirAt <- MCInitDirAt
  MaxFaults = 1
  Torn = Torn
  None = None
SPECIFICATION Spec
INVARIANTS TypeOK OneWinner
PROPERTIES NoReplace NoCleanup ImplementsStore
CHECK_DEADLOCK FALSE
