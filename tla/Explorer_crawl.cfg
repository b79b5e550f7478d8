\* Every site of four pages, one of them a seed; two failures or fewer.
SPECIFICATION Spec
CONSTANTS
  Urls <- MCUrls
  Host <- MCHost
  Allowed = {"casillas"}
  Start = "u0"
  Seeds <- MCSeeds
  None = None
  Unsafe <- MCUnsafe
  Sites <- MCSites
  Slug <- MCSlug
  MaxPages = 3
  MaxDepth = 2
  ReportLimit = 2
  MaxFaults = 2
INVARIANTS Polite OnlyHarmless Accounted OneListener NearestFirst
CHECK_DEADLOCK FALSE
