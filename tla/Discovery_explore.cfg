\* Either script on a casilla of six, two pages of April; three failures or late
\* answers at any step.
SPECIFICATION Spec
CONSTANTS
  Box <- MCBox
  Unread = {6, 4}
  Window <- MCWindow
  CaseFile <- MCCaseFile
  Refusable <- MCRefusable
  PageSize = 2
  None = None
  Expediente = "x"
  Filtered = "?"
  MaxNotifications = 2
  LastPage = 3
  MaxFaults = 3
INVARIANTS TypeOK OnlyReadOpened FindingsTrue OwnCalls StepsReported
\* A script is over when it has written its findings.
CHECK_DEADLOCK FALSE
