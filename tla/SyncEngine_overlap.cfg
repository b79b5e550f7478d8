\* Two overlapping syncs, with a failure.
SPECIFICATION FairSpec
CONSTANTS
  Syncs = {s1, s2}
  MaxBox = 3
  PageSize = 2
  Idents = {i1}
  Undated = {}
  Burst = 0
  MaxFaults = 1
INVARIANTS AttachmentBacked
PROPERTIES BackfillRepairs
