SPECIFICATION Spec
CONSTANTS
  WordBits = 2
  MaxSkip = 255
  U32 = 65536
  Actions = {"allow", "trap", "log", "errno", "user_notify"}
  X86_64ID = 1
  X32Mask = 3
  Arches <- FaultyArches
  Policies <- SmallPolicies
  Calls <- ConditionCalls
INVARIANTS
  TypeOK
  NoPanic
  Faithful
  RejectsMalformed
  AcceptsValid
