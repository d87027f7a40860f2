SPECIFICATION Spec
CONSTANTS
  Unset = Unset
  Bad = Bad
  All = All
  HasProbe = TRUE
  MaxEdits = 2
  PathParts <- MCPathParts
  Profiles <- MCProfiles
  Tokens <- MCTokens
  SourceFrames <- MCSourceFrames
  Files <- MCFiles
  Edits <- MCEdits
INVARIANTS
  AcceptedSurvivesSave SavingSettles AcceptedIsADisc SignalsKeepOffTheCodes
  SignalsJoin
