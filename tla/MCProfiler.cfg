SPECIFICATION FairSpec
CONSTANTS
  SyscallNumbers = {1, 2, 3}
  Invocations = {i1, i2}
  Builds = {"b1", "b2", "b3", "b4"}
  Machine <- MCMachine
  Dump <- MCDump
  Options <- MCOptions
  BufferSize = 2
  Troubles <- MCTroubles
INVARIANTS
  CalmProfile
  CacheWhole
  
  
PROPERTY
  Ends
