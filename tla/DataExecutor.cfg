SPECIFICATION RestSpec
CONSTANTS
  N = 3
  Limit = 2
  Awaits <- MCAwaits
  Rest = {1, 2}
  Posts = {2}
  GetAttempts = 2
  None = None
PROPERTIES NothingAcceptedLate ImplementsPool SentWhileAwaited EverythingEnds
CHECK_DEADLOCK FALSE
