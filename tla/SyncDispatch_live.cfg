\* Two accounts compete for one worker: nothing stays requested or locked.
SPECIFICATION FairSpec
CONSTANTS
  Accounts = {a1, a2}
  Workers = {w1}
  LockWindow = 1
  Frequency = 0
  DueLimit = 2
  Requestable = {a1}
  Switchable = {}
  MaxCopies = 1
  MaxFaults = 1
PROPERTIES RequestClaimed KeepsSyncing
