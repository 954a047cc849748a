CONSTANTS
  Mutation = {m1}
  MaxDisturbances = 1
SPECIFICATION FairSpec
PROPERTY OnlyDeadCookieEndsSession
CHECK_DEADLOCK FALSE
