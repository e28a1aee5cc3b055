SPECIFICATION Spec
CONSTANTS
  SyscallNumbers = {1, 2, 3}
  Invocations = {i1, i2}
  Builds = {"b2"}
  Machine <- MCMachine
  Dump <- MCDump
  Options <- PlainOptions
  BufferSize = 2
  Troubles <- MCTroubles
INVARIANT
  ProfileComplete
