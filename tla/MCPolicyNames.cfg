SPECIFICATION Spec
CONSTANTS
  WordBits = 4
  MaxSkip = 2
  U32 = 64
  Actions = {"allow", "trap", "log", "errno", "user_notify"}
  X86_64ID = 1
  X32Mask <- MCX32Mask
  Arches <- AllArches
  Policies <- NamePolicies
  Calls <- NameCalls
INVARIANTS
  NoPanic
  Faithful
  Loadable
