SPECIFICATION FairSpec
CONSTANTS
  Workers = {w1, w2}
  Events <- TwoEvents
  Bad <- OldestIsBad
  MaxAttempts = 3
  BatchSize = 2
  MaxFaults = 2
INVARIANTS TypeOK LoggedOnce ProcessedIsLogged
PROPERTIES TrailSpec EventsSettle GoodEventsLogged
