CONSTANTS
  Folder = {"r1", "r2", "d1", "d2"}
  File = {"m1", "f1", "f2"}
  Link = {"link"}
  Outside = "out"
  Fits <- MCFits
  Block = {1, 2}
  MaxBlocks = 2
  MaxChanges = 2
  InitEntries <- MCInitEntries
  InitContents <- MCInitContents
  Nothing = Nothing
  RootName = "root"
  Manifest <- MCManifest
  Final <- MCFinal
  Expected <- MCExpected
SPECIFICATION AuditSpec
INVARIANTS BothAtOnce NoFalseAlarm
CHECK_DEADLOCK FALSE
