SPECIFICATION SandboxSpec
CONSTANTS
  Threads = {t1, t2, t3}
  Callers = {c1, c2}
  Filters <- MixedFilters
  Documents <- MCDocuments
  MaxInsns = 3
  U16 = 5
SYMMETRY Symmetry
INVARIANTS
  TypeOK
  OnlySuccessLoads
  RefusedOnlyWhenMoved
  SupportedHonest
  LoadedWhole
  SyncedEverywhere
  CommandFiltered
PROPERTY
  LoadsAtomically
