SPECIFICATION BrowserSpec
CONSTANTS
  Accounts = {ann, bob}
  Earlier = {ann}
  MaxRequests = 3
  OneFault = TRUE
  None = None
  Notices = {n1}
  Clicks = {c1}
  MaxLosses = 1
  Nothing = Nothing
INVARIANTS BrowserTypeOK OneIdentity SessionSurvives
PROPERTIES LoadingEnds BellCatchesUp
CHECK_DEADLOCK FALSE
