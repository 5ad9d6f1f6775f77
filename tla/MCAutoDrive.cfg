SPECIFICATION FairSpec
CONSTANTS
  MaxRuns = 2
  Epochs = 2
  Configs <- AllConfigs
  Default <- Narrow
  Chosen <- WideOnly
  MayRaise = {1}
  MayDie = {1, 2}
  MayPause = {1, 2}
  MayRestart = TRUE
  MaxSamples = 3
  MaxEpisodes = 2
  MaxActions = 4
  MaxExports = 2
  LegacyImages <- TwoBlocks
  GroupSize = 2
  MaxSteps = 5
  MaxFailures = 2
  None = None
  Torn = Torn
INVARIANTS
  AutoDriveTypeOK
  ResumeIsExact
  StatusIsTrue
  DatasetIsSound
  DrivesSafely
PROPERTIES
  RunsAreFinalised
  ViewCatchesUp
CHECK_DEADLOCK FALSE
