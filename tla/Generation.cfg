SPECIFICATION Spec
CONSTANTS
  ClipB = ClipB
  StillS = StillS
  Still = {StillS}
  Clip = {ClipB}
  Length <- MCLength
  Thread = {t1, t2}
  Prefetcher = prefetcher
  Entry = {e1, e2, e3, e4}
  MaxCachedSources = 1
  Faults = TRUE
  None = None
  Project <- MCProject
  Phases = 2
  Capacity = 1
  MaxGhostKeys = 1
  MaxRequests = 2
INVARIANTS StageInvariant SourceServes
PROPERTIES CacheNeverShrinks StageSettles
