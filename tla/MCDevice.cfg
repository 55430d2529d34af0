CONSTANTS
  Services = 2
  Workers = {w1, w2}
  Scenarios <- MCScenarios
SPECIFICATION FairSpec
INVARIANT DownIsClean UpIsWhole MemorySafe CountsOwned ConfigSurvivesReset
PROPERTY ResetEnds
