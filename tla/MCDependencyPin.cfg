CONSTANTS
  Tree = {"t1", "t2"}
  Module <- MCModule
  Folder = {"docs", "package"}
  Added <- MCAdded
  FolderOf <- MCFolderOf
  Displaces <- MCDisplaces
  Bytecode = "bytecode"
  Callables <- MCCallables
  InitFiles <- MCInitFiles
  InitLoaded <- MCInitLoaded
  MaxChanges = 3
  MaxInvocations = 2
  Good = Good
  Bad = Bad
  Nothing = Nothing
SPECIFICATION Spec
INVARIANTS RunsWhatWasVerified QuietInvocationSucceeds TypeOK
PROPERTIES ReplacementFailsClosed
CHECK_DEADLOCK FALSE
