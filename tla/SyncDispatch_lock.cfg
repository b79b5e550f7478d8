\* One account, two workers: the claim window under every interleaving.
SPECIFICATION Spec
CONSTANTS
  Accounts = {a1}
  Workers = {w1, w2}
  LockWindow = 2
  Frequency = 1
  DueLimit = 1
  Requestable = {a1}
  Switchable = {a1}
  MaxCopies = 2
  MaxFaults = 2
SYMMETRY Interchangeable
INVARIANTS ExclusiveWithinWindow LogAccounting
PROPERTIES RequestKept LeaseSpec
