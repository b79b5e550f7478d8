\* One sync at a time: whatever happens to its session, the account recovers,
\* also through a rotation of the keys.
SPECIFICATION FairSpec
CONSTANTS
  Syncs = {s1}
  Tokens = {t1, t2, t3}
  None = None
  Owner = Owner
  OldKey = OldKey
  NewKey = NewKey
  NoKey = NoKey
  Retries = 2
  MaxFaults = 3
INVARIANTS PasswordRead
PROPERTIES OkLeavesSession Recovers
