CONSTANTS
  Publisher = {p1, p2, p3}
  Folder <- MCFolder
  DirName <- MCDirName
  Top = "top"
  Path <- MCPath
  DirOf <- MCDirOf
  InRepository = {}
  Manifest <- MCManifest
  Final <- MCFinal
  Identity <- MCIdentity
  IdentityOf <- MCIdentityOf
  Cites <- MCCites
  Request <- RaceRequest
  InitRoot = "r1"
  InitDirAt <- MCInitDirAt
  MaxFaults = 0
  Torn = Torn
  None = None
SPECIFICATION FairSpec
PROPERTIES Termination SomebodyWins
CHECK_DEADLOCK FALSE
