SPECIFICATION Spec
CONSTANTS
  WordBits = 4
  MaxSkip = 2
  U32 = 16
  Actions = {"allow", "errno"}
  MaxInsts = 5
  MaxJumps = 2
  MaxLabels = 4
INVARIANTS
  SkipsFit
  JumpsTrack
  LabelsTrack
  InsertionsGuarded
  LandsHome
  WellUsedSucceeds
