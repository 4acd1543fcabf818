\* Two commands, one after the other, over what the first has left.
SPECIFICATION Spec
CONSTANTS
  Null = Null
  Bad = Bad
  Cores = 4
  Shelves <- MCShelves
  Dirs <- MCDirs
  Links <- MCLinks
  Commands <- MCCommands
  Environments <- MCEnvironments
  ConfigFiles <- MCConfigFiles
  Toolchains = {TRUE, FALSE}
  MaxRuns = 2
CHECK_DEADLOCK FALSE
INVARIANTS
  NothingLost
  OutputPlays
  PlansCanSucceed
  ExitCodeTells
PROPERTIES
  SettledRunsDoNothing
