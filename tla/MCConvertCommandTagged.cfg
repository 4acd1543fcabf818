\* A track whose title FFprobe reports under the key TITLE.
SPECIFICATION Spec
CONSTANTS
  Null = Null
  Bad = Bad
  Cores = 4
  Shelves <- TaggedShelves
  Dirs <- MCDirs
  Links = {}
  Commands <- PlainCommands
  Environments <- MCEnvironments
  ConfigFiles <- MCConfigFiles
  Toolchains = {TRUE}
  MaxRuns = 1
CHECK_DEADLOCK FALSE
INVARIANT
  PlansCanSucceed
