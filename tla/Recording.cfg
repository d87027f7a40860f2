SPECIFICATION Spec
CHECK_DEADLOCK FALSE
CONSTANTS
  LinesPerFrame = 5
  SamplesPerLine = 40
  ActivePictureStart = 60
  ActivePictureEnd = 139
  Programmes <- MCProgrammes
  Draws <- MCDraws
  RiffLimit = 4849940
INVARIANTS
  RowsTellTheDamage PauseIsSilent PlayerFindsTracks SweepsEndWithTheSection
  FilesDescribeThemselves AudioReachesTheFile
