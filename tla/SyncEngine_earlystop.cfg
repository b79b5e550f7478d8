\* An aborted first sync hides the older pages.
SPECIFICATION Spec
CONSTANTS
  Syncs = {s1}
  MaxBox = 4
  PageSize = 2
  Idents = {i1}
  Undated = {}
  Burst = 1
  MaxFaults = 1
PROPERTIES EarlyStopSound
