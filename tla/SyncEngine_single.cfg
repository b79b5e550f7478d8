\* One sync after another, a failure at any step or none at all.
SPECIFICATION Spec
CONSTANTS
  Syncs = {s1}
  MaxBox = 5
  PageSize = 2
  Idents = {i1, i2}
  Undated = {2}
  Burst = 1
  MaxFaults = 2
INVARIANTS TypeOK OwnAttachments
PROPERTIES CompleteAtEnd
