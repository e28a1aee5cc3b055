SPECIFICATION Spec
CONSTANTS
  Sources <- MCSources
  Kernel <- MCKernel
  GOARCHes <- MCGOARCHes
  ArchNames <- MCArchNames
  MaxRuns = 3
INVARIANTS
  FileUsable
  
  NamesRoundTrip
