CONSTANTS
  Folder = {"r1", "r2", "d1", "d2"}
  File = {"x1", "x2"}
  Link = {"link"}
  Outside = "out"
  Fits <- MCFits
  Block = {1, 2}
  MaxBlocks = 2
  MaxChanges = 3
  InitEntries <- MCInitEntries
  InitContents <- MCInitContents
  Nothing = Nothing
  RootName = "root"
  RelativePath <- MCRelativePath
SPECIFICATION CaptureSpec
INVARIANTS CapturedWasThere NoFalseRefusal
PROPERTIES CaptureIsWhole
CHECK_DEADLOCK FALSE
