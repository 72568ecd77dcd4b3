SPECIFICATION NotificationsSpec
CONSTANTS
  Notices = {n1, n2}
  Clicks = {c1}
  MaxLosses = 0
  Nothing = Nothing
INVARIANT BellMatchesList
CHECK_DEADLOCK FALSE
