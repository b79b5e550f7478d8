\* Three clients on a bucket of three tokens, each of three units.
SPECIFICATION FairSpec
CONSTANTS
  Clients = {c1, c2, c3}
  Cost = 3
  Capacity = 9
  Horizon = 12
INVARIANTS WindowBound NoOversleep
PROPERTIES BucketSpec Progress
