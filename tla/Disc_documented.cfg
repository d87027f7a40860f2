SPECIFICATION Spec
CONSTANTS
  MaxPictureNumber <- MCMaxPictureNumber
  MaxFmNumber = 6
  StopBitTrack = 4
  FramesPerSecond <- MCFramesPerSecond
  SecondsPerMinute = 4
  CorrectionStep = 8
  CorrectionsPerCycle = 3
  Projects <- DocumentedDisc
  Unset = Unset
  BadHex = BadHex
CHECK_DEADLOCK FALSE
INVARIANT CodesAsDocumented
