SPECIFICATION SandboxSpec
CONSTANTS
  Threads = {t1, t2}
  Callers = {c1, c2}
  Filters <- PlainAndTSync
  Documents = {}
  MaxInsns = 3
  U16 = 5
INVARIANT
  TSyncEverywhere
