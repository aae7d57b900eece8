CONSTANTS
  Runs = {r0, r1, r2}
  Past = {r0}
  url = url
  device = device
  Combos = {url, device}
  Configs <- MCConfigs
  Budget = 5
  LastDay = 2
SPECIFICATION Spec
INVARIANTS FetchInv
PROPERTIES RefetchReplaces EveryRunEnds
CHECK_DEADLOCK FALSE
