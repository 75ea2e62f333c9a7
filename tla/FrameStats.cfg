SPECIFICATION Spec
CONSTANTS
  Second = 5
  Period = 1
  SkipLimit = 1
  MaxTime = 9
  MaxSamples = 3
INVARIANTS LineIsTrue  StagesFit
