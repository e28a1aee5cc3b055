SPECIFICATION Spec
CONSTANTS
  SyscallNumbers = {0, 1}
  Lines <- MCLines
  MaxLines = 5
INVARIANTS
  OwnNumber
  NoneLost
