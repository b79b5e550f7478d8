\* Three accounts of two customers whose case files have one number.
SPECIFICATION Spec
CONSTANTS
  s1 = s1  s2 = s2  s3 = s3
  n1 = n1  n2 = n2  n3 = n3
  f1 = f1  f2 = f2  f3 = f3
  alice = alice  bob = bob
  Syncs = {s1, s2, s3}
  Notifications = {n1, n2, n3}
  CaseFiles = {f1, f2, f3}
  None = None
  Unmatched = Unmatched
  Casilla <- Casillas
  Customer <- Customers
  Spelling <- Spellings
  Dashes = {"en dash"}
  MaxFaults = 1
INVARIANTS NothingCrosses FolderMatchesLink
PROPERTIES FirstUploadRouted
